---- MODULE Spec2Model ----
(***************************************************************************)
(* Model of the text decoders of rhorizons: the field slicers of           *)
(* utilities.rs, the two record machines of ephemeris.rs, the decoders of  *)
(* major_bodies.rs and properties.rs, and the retry loop of client.rs.     *)
(*                                                                         *)
(* A Rust &str is modelled as a sequence of characters.  A character is an *)
(* atom (a one-symbol string); its UTF-8 width in bytes is ByteWidth.      *)
(* str::len() and the slices &s[..n], &s[n..] count bytes, and a slice at  *)
(* an index that is not a character boundary panics.                       *)
(***************************************************************************)
EXTENDS Integers, Sequences, FiniteSets, TLC

VARIABLES
    kind,    \* instance -> which record machine the instance is
    input,   \* instance -> the line sequence handed to parse(), as line names
    pos,     \* instance -> number of lines the input iterator has yielded
    state,   \* instance -> the parser's `state` field
    pc,      \* instance -> "idle" | "running" (inside next()) | "panicked"
    ret,     \* instance -> what the last call of next() returned
    out,     \* instance -> the items next() has returned so far, in order
    call,    \* the call of a pure function under check
    result   \* its result

vars == <<kind, input, pos, state, pc, ret, out, call, result>>

parserVars == <<kind, input, pos, state, pc, ret, out>>

-----------------------------------------------------------------------------
(* Characters and strings                                                  *)

\* A character outside ASCII (two bytes in UTF-8), written by its code point.
WideChar == "U+00E9"

ByteWidth(c) == IF c = WideChar THEN 2 ELSE 1

RECURSIVE ByteLen(_)
\* str::len(): the length in bytes.
ByteLen(s) == IF s = <<>> THEN 0 ELSE ByteWidth(Head(s)) + ByteLen(Tail(s))

\* The number of characters of s that end at byte index n, or -1 when n is
\* not a character boundary of s (Rust's str::is_char_boundary).
CharsAtByte(s, n) ==
    LET ks == {k \in 0..Len(s) : ByteLen(SubSeq(s, 1, k)) = n}
    IN  IF ks = {} THEN -1 ELSE CHOOSE k \in ks : TRUE

Panic == [panic |-> TRUE]

\* &value[..n] and &value[n..] together; panics off a character boundary.
SplitAtByte(value, n) ==
    LET k == CharsAtByte(value, n)
    IN  IF k < 0 THEN Panic
        ELSE [panic |-> FALSE,
              fst |-> SubSeq(value, 1, k),
              snd |-> SubSeq(value, k + 1, Len(value))]

WhiteSpace == {" ", "\t"}

RECURSIVE TrimStart(_)
TrimStart(s) ==
    IF s # <<>> /\ Head(s) \in WhiteSpace THEN TrimStart(Tail(s)) ELSE s

RECURSIVE TrimEnd(_)
TrimEnd(s) ==
    IF s # <<>> /\ s[Len(s)] \in WhiteSpace
    THEN TrimEnd(SubSeq(s, 1, Len(s) - 1)) ELSE s

\* str::trim()
Trim(s) == TrimEnd(TrimStart(s))

-----------------------------------------------------------------------------
(* utilities.rs                                                            *)

take_or_empty(value, n) ==
    IF ByteLen(value) > n
    THEN SplitAtByte(value, n)
    ELSE [panic |-> FALSE, fst |-> value, snd |-> <<>>]

take_expecting(value, expected) ==
    IF ByteLen(expected) > ByteLen(value)
    THEN [panic |-> FALSE, ok |-> FALSE, err |-> value]
    ELSE LET r == SplitAtByte(value, ByteLen(expected))
         IN  IF r.panic THEN Panic
             ELSE IF r.fst = expected
                  THEN [panic |-> FALSE, ok |-> TRUE, rest |-> r.snd]
                  ELSE [panic |-> FALSE, ok |-> FALSE, err |-> value]

-----------------------------------------------------------------------------
(* Numbers: str::parse::<f32>() and the chrono scanner                     *)

Digits == {"0", "1", "2", "3", "4", "5", "6", "7", "8", "9"}

DigitSeq == <<"0", "1", "2", "3", "4", "5", "6", "7", "8", "9">>

DigitVal(c) == (CHOOSE k \in 1..10 : DigitSeq[k] = c) - 1

RECURSIVE NatOf(_)
\* The value of a sequence of decimal digits.
NatOf(ds) ==
    IF ds = <<>> THEN 0
    ELSE 10 * NatOf(SubSeq(ds, 1, Len(ds) - 1)) + DigitVal(ds[Len(ds)])

Fail == [ok |-> FALSE]

\* <f32 as FromStr>::from_str on the part of its grammar the line pool uses:
\* an optional sign followed by one or more decimal digits (no fraction, no
\* exponent, no inf/nan; the pool has none of `.`, `e`, `E`, `i`, `n` in a
\* field).  The values of the pool are far below 2^24, so f32 holds them
\* exactly.  Anything else is Err(ParseFloatError).
ParseF32(s) ==
    LET signed == s # <<>> /\ s[1] \in {"+", "-"}
        ds     == IF signed THEN Tail(s) ELSE s
    IN  IF ds # <<>> /\ \A j \in 1..Len(ds) : ds[j] \in Digits
        THEN [ok |-> TRUE,
              val |-> IF signed /\ s[1] = "-" THEN 0 - NatOf(ds) ELSE NatOf(ds)]
        ELSE Fail

\* The largest k <= max such that the first k characters of s are digits.
LeadingDigits(s, max) ==
    LET lim == IF Len(s) < max THEN Len(s) ELSE max
        ks  == {k \in 0..lim : \A j \in 1..k : s[j] \in Digits}
    IN  CHOOSE k \in ks : \A m \in ks : m <= k

\* chrono::format::scan::number(s, min, max)
ScanNumber(s, min, max) ==
    LET k == LeadingDigits(s, max)
    IN  IF k < min THEN Fail
        ELSE [ok |-> TRUE, val |-> NatOf(SubSeq(s, 1, k)),
              rest |-> SubSeq(s, k + 1, Len(s))]

\* chrono's Item::Numeric: leading white space is skipped; a signed field
\* (the year) takes an explicit sign and then any number of digits.
ScanNumeric(s0, width, signed) ==
    LET s == TrimStart(s0)
    IN  IF signed /\ s # <<>> /\ s[1] = "-"
        THEN LET r == ScanNumber(Tail(s), 1, Len(s))
             IN  IF r.ok THEN [r EXCEPT !.val = 0 - r.val] ELSE Fail
        ELSE IF signed /\ s # <<>> /\ s[1] = "+"
        THEN ScanNumber(Tail(s), 1, Len(s))
        ELSE ScanNumber(s, 1, width)

\* chrono's Item::Literal
ScanLiteral(s, lit) ==
    IF Len(s) >= Len(lit) /\ SubSeq(s, 1, Len(lit)) = lit
    THEN [ok |-> TRUE, val |-> 0, rest |-> SubSeq(s, Len(lit) + 1, Len(s))]
    ELSE Fail

\* chrono's Item::Space: any amount of white space, also none.
ScanSpace(s) == [ok |-> TRUE, val |-> 0, rest |-> TrimStart(s)]

UpperCase == <<"A", "B", "C", "D", "E", "F", "G", "H", "I", "J", "K", "L", "M",
               "N", "O", "P", "Q", "R", "S", "T", "U", "V", "W", "X", "Y", "Z">>

LowerCase == <<"a", "b", "c", "d", "e", "f", "g", "h", "i", "j", "k", "l", "m",
               "n", "o", "p", "q", "r", "s", "t", "u", "v", "w", "x", "y", "z">>

ToLower(c) ==
    IF \E k \in 1..Len(UpperCase) : UpperCase[k] = c
    THEN LowerCase[CHOOSE k \in 1..Len(UpperCase) : UpperCase[k] = c]
    ELSE c

MonthNames == << <<"j", "a", "n">>, <<"f", "e", "b">>, <<"m", "a", "r">>,
                 <<"a", "p", "r">>, <<"m", "a", "y">>, <<"j", "u", "n">>,
                 <<"j", "u", "l">>, <<"a", "u", "g">>, <<"s", "e", "p">>,
                 <<"o", "c", "t">>, <<"n", "o", "v">>, <<"d", "e", "c">> >>

\* chrono::format::scan::short_month0: three letters, in any case.
ScanShortMonth(s) ==
    IF Len(s) < 3 THEN Fail
    ELSE LET w  == [j \in 1..3 |-> ToLower(s[j])]
             ms == {m \in 1..12 : MonthNames[m] = w}
         IN  IF ms = {} THEN Fail
             ELSE [ok |-> TRUE, val |-> CHOOSE m \in ms : TRUE,
                   rest |-> SubSeq(s, 4, Len(s))]

IsLeapYear(y) == (y % 4 = 0 /\ y % 100 # 0) \/ y % 400 = 0

DaysInMonth(y, m) ==
    IF m = 2 THEN (IF IsLeapYear(y) THEN 29 ELSE 28)
    ELSE IF m \in {4, 6, 9, 11} THEN 30 ELSE 31

\* The items of the format "%Y-%b-%d %H:%M:%S", as chrono's StrftimeItems
\* yields them.
DateFormat ==
    <<[item |-> "Numeric", field |-> "year", width |-> 4, signed |-> TRUE],
      [item |-> "Literal", text |-> <<"-">>],
      [item |-> "ShortMonthName", field |-> "month"],
      [item |-> "Literal", text |-> <<"-">>],
      [item |-> "Numeric", field |-> "day", width |-> 2, signed |-> FALSE],
      [item |-> "Space"],
      [item |-> "Numeric", field |-> "hour", width |-> 2, signed |-> FALSE],
      [item |-> "Literal", text |-> <<":">>],
      [item |-> "Numeric", field |-> "minute", width |-> 2, signed |-> FALSE],
      [item |-> "Literal", text |-> <<":">>],
      [item |-> "Numeric", field |-> "second", width |-> 2, signed |-> FALSE]>>

ScanItem(s, it) ==
    IF it.item = "Numeric" THEN ScanNumeric(s, it.width, it.signed)
    ELSE IF it.item = "Literal" THEN ScanLiteral(s, it.text)
    ELSE IF it.item = "ShortMonthName" THEN ScanShortMonth(s)
    ELSE ScanSpace(s)

RECURSIVE ParseItems(_, _, _)
\* chrono::format::parse: the items in order, each on what the one before
\* left; text left over after the last item is an error (TOO_LONG).
ParseItems(s, items, parsed) ==
    IF items = <<>>
    THEN (IF s = <<>> THEN [ok |-> TRUE, val |-> parsed] ELSE Fail)
    ELSE LET r == ScanItem(s, Head(items))
         IN  IF ~r.ok THEN Fail
             ELSE ParseItems(r.rest, Tail(items),
                             IF Head(items).item \in {"Numeric", "ShortMonthName"}
                             THEN [parsed EXCEPT ![Head(items).field] = r.val]
                             ELSE parsed)

\* Parsed::to_naive_datetime_with_offset: the date and the time must exist
\* (second 60 is chrono's leap second).
ValidDateTime(t) ==
    /\ t.day >= 1 /\ t.day <= DaysInMonth(t.year, t.month)
    /\ t.hour <= 23 /\ t.minute <= 59 /\ t.second <= 60

\* NaiveDateTime::parse_from_str(time, "%Y-%b-%d %H:%M:%S")
ParseFromStr(time) ==
    LET r == ParseItems(time, DateFormat,
                        [year |-> 0, month |-> 0, day |-> 0,
                         hour |-> 0, minute |-> 0, second |-> 0])
    IN  IF r.ok /\ ValidDateTime(r.val) THEN r ELSE Fail

RECURSIVE Split(_, _)
\* str::split(c)
Split(s, c) ==
    LET is == {k \in 1..Len(s) : s[k] = c}
    IN  IF is = {} THEN <<s>>
        ELSE LET i == CHOOSE k \in is : \A m \in is : k <= m
             IN  <<SubSeq(s, 1, i - 1)>> \o Split(SubSeq(s, i + 1, Len(s)), c)

\* str::split_terminator(c): as split, without a trailing empty piece.
SplitTerminator(s, c) ==
    LET p == Split(s, c)
    IN  IF p[Len(p)] = <<>> THEN SubSeq(p, 1, Len(p) - 1) ELSE p

-----------------------------------------------------------------------------
(* ephemeris.rs: decoding of one line                                      *)

\* The width of a value column.
FieldWidth == 22

\* The width of the calendar text `YYYY-Mon-DD HH:MM:SS`.
DateWidth == 20

AdPrefix == <<"A", ".", "D", ".", " ">>

\* Result<_, _>::unwrap() of a take_expecting result, and the pair of a
\* take_or_empty result: the text to go on with, or a panic.
Unwrap(e) ==
    IF e.panic THEN Panic
    ELSE IF e.ok THEN [panic |-> FALSE, text |-> e.rest] ELSE Panic

\* `line.split_terminator('=').collect::<Vec<_>>()[1].trim()`
SecondPiece(line) ==
    LET parts == SplitTerminator(line, "=")
    IN  IF Len(parts) < 2 THEN Panic
        ELSE [panic |-> FALSE, text |-> Trim(parts[2])]

\* CalendarTime without the cut at 20 characters: the whole text after
\* `A.D. ` goes to chrono.
CalendarTimeUncut(date_time_str) ==
    LET d == ParseFromStr(date_time_str)
    IN  IF d.ok THEN [panic |-> FALSE, time |-> d.val] ELSE Panic

\* take_or_empty(date_time_str, 20) and the chrono parse with its unwrap()
CalendarTime(date_time_str) ==
    LET t == take_or_empty(date_time_str, DateWidth)
    IN  IF t.panic THEN Panic
        ELSE LET d == ParseFromStr(t.fst)
             IN  IF d.ok THEN [panic |-> FALSE, time |-> d.val] ELSE Panic

\* parse_date_time(line); Panic stands for the unwinding of an unwrap() or
\* of the index [1].
parse_date_time(line) ==
    LET p == SecondPiece(line)
    IN  IF p.panic THEN Panic
        ELSE LET e == Unwrap(take_expecting(p.text, AdPrefix))
             IN  IF e.panic THEN Panic ELSE CalendarTime(e.text)

\* One labelled column: `take_expecting(line, label).unwrap()` and then
\* `take_or_empty(line, 22)`.
Column(line, label) ==
    LET e == Unwrap(take_expecting(line, label))
    IN  IF e.panic THEN Panic ELSE take_or_empty(e.text, FieldWidth)

RECURSIVE Columns(_, _)
\* The columns of a row, label after label, each on the text the one before
\* left.
Columns(line, labels) ==
    IF labels = <<>> THEN [panic |-> FALSE, cols |-> <<>>]
    ELSE LET c == Column(line, Head(labels))
         IN  IF c.panic THEN Panic
             ELSE LET more == Columns(c.snd, Tail(labels))
                  IN  IF more.panic THEN Panic
                      ELSE [panic |-> FALSE, cols |-> <<c.fst>> \o more.cols]

\* The three columns of a row of three labelled columns, as every data arm
\* of the two next() functions slices them.
RowColumns(line, l1, l2, l3) == Columns(line, <<l1, l2, l3>>)

\* trim().parse::<f32>().unwrap() of the three columns.
RowValues(cols) ==
    LET x == ParseF32(Trim(cols[1]))
        y == ParseF32(Trim(cols[2]))
        z == ParseF32(Trim(cols[3]))
    IN  IF x.ok /\ y.ok /\ z.ok
        THEN [panic |-> FALSE, vals |-> <<x.val, y.val, z.val>>]
        ELSE Panic

\* A data arm up to its assignment of self.state.
ParseRow(line, l1, l2, l3) ==
    LET c == RowColumns(line, l1, l2, l3)
    IN  IF c.panic THEN Panic ELSE RowValues(c.cols)

LabelX  == <<" ", "X", " ", "=">>
LabelY  == <<" ", "Y", " ", "=">>
LabelZ  == <<" ", "Z", " ", "=">>
LabelVX == <<" ", "V", "X", "=">>
LabelVY == <<" ", "V", "Y", "=">>
LabelVZ == <<" ", "V", "Z", "=">>
LabelEC == <<" ", "E", "C", "=">>
LabelQR == <<" ", "Q", "R", "=">>
LabelIN == <<" ", "I", "N", "=">>
LabelOM == <<" ", "O", "M", "=">>
LabelW  == <<" ", "W", " ", "=">>
LabelTp == <<" ", "T", "p", "=">>
LabelN  == <<" ", "N", " ", "=">>
LabelMA == <<" ", "M", "A", "=">>
LabelTA == <<" ", "T", "A", "=">>
LabelA  == <<" ", "A", " ", "=">>
LabelAD == <<" ", "A", "D", "=">>
LabelPR == <<" ", "P", "R", "=">>

SoeText == <<"$", "$", "S", "O", "E">>
EoeText == <<"$", "$", "E", "O", "E">>

-----------------------------------------------------------------------------
(* The lines the inputs are made of.  An input is a sequence of line       *)
(* names; LineText gives the characters of a line.                         *)

RECURSIVE Dec(_)
\* The decimal digits of a natural number.
Dec(n) == IF n < 10 THEN <<DigitSeq[n + 1]>> ELSE Dec(n \div 10) \o <<DigitSeq[(n % 10) + 1]>>

Dec2(n) == IF n < 10 THEN <<"0">> \o Dec(n) ELSE Dec(n)

Spaces(n) == [j \in 1..n |-> " "]

\* A column of FieldWidth characters: sign position, digits, padding.
Field(n) ==
    LET body == IF n < 0 THEN <<"-">> \o Dec(0 - n) ELSE <<" ">> \o Dec(n)
    IN  body \o Spaces(FieldWidth - Len(body))

Row(l1, a, l2, b, l3, c) == l1 \o Field(a) \o l2 \o Field(b) \o l3 \o TrimEnd(Field(c))

MonthText == << <<"J", "a", "n">>, <<"F", "e", "b">>, <<"M", "a", "r">>,
                <<"A", "p", "r">>, <<"M", "a", "y">>, <<"J", "u", "n">>,
                <<"J", "u", "l">>, <<"A", "u", "g">>, <<"S", "e", "p">>,
                <<"O", "c", "t">>, <<"N", "o", "v">>, <<"D", "e", "c">> >>

\* `<julian day> = A.D. YYYY-Mon-DD HH:MM:SS.0000 TDB `
DateLine(jd, y, mo, d, h, mi, se) ==
    Dec(jd) \o <<".", "2", "5", "0", " ", "=", " ">> \o AdPrefix
    \o Dec(y) \o <<"-">> \o MonthText[mo] \o <<"-">> \o Dec2(d) \o <<" ">>
    \o Dec2(h) \o <<":">> \o Dec2(mi) \o <<":">> \o Dec2(se)
    \o <<".", "0", "0", "0", "0", " ", "T", "D", "B", " ">>

TimeA == [year |-> 2022, month |-> 8, day |-> 13, hour |-> 19, minute |-> 55, second |-> 56]
TimeB == [year |-> 2022, month |-> 8, day |-> 13, hour |-> 20, minute |-> 55, second |-> 56]

LineText ==
    [soe      |-> SoeText,
     eoe      |-> EoeText,
     soe_sp   |-> SoeText \o <<" ">>,
     empty    |-> <<>>,
     header   |-> <<"J", "D", "T", "D", "B">>,
     dateA    |-> DateLine(2459805, 2022, 8, 13, 19, 55, 56),
     dateB    |-> DateLine(2459805, 2022, 8, 13, 20, 55, 56),
     date_bad |-> DateLine(2459805, 2022, 2, 30, 20, 55, 56),
     posA     |-> Row(LabelX, 11, LabelY, 12, LabelZ, 0 - 13),
     posB     |-> Row(LabelX, 21, LabelY, 22, LabelZ, 23),
     velA     |-> Row(LabelVX, 14, LabelVY, 15, LabelVZ, 16),
     velB     |-> Row(LabelVX, 24, LabelVY, 0 - 25, LabelVZ, 26),
     aux      |-> Row(<<" ", "L", "T", "=">>, 7, <<" ", "R", "G", "=">>, 8,
                      <<" ", "R", "R", "=">>, 9),
     pos_lbl  |-> Row(LabelX, 11, LabelZ, 12, LabelY, 13),
     pos_nan  |-> LabelX \o Field(11) \o LabelY \o <<" ", "*", "*">> \o Spaces(19)
                  \o LabelZ \o Field(13),
     pos_cut  |-> LabelX \o Field(11) \o LabelY,
     pos_wide |-> LabelX \o Spaces(21) \o <<WideChar>> \o LabelY \o Field(12)
                  \o LabelZ \o Field(13),
     ecA      |-> Row(LabelEC, 101, LabelQR, 102, LabelIN, 103),
     omA      |-> Row(LabelOM, 104, LabelW, 105, LabelTp, 106),
     nA       |-> Row(LabelN, 107, LabelMA, 108, LabelTA, 109),
     aA       |-> Row(LabelA, 110, LabelAD, 111, LabelPR, 112),
     ecB      |-> Row(LabelEC, 201, LabelQR, 202, LabelIN, 203),
     omB      |-> Row(LabelOM, 204, LabelW, 205, LabelTp, 206),
     nB       |-> Row(LabelN, 207, LabelMA, 208, LabelTA, 209),
     aB       |-> Row(LabelA, 210, LabelAD, 211, LabelPR, 212),
     a_nan    |-> LabelA \o Field(110) \o LabelAD \o Field(111) \o LabelPR
                  \o <<" ", "n", "/", "a">>]

LineNames == DOMAIN LineText

\* The decodings of every line of the pool, computed once.
DateTable == [n \in LineNames |-> parse_date_time(LineText[n])]

PosTable == [n \in LineNames |-> ParseRow(LineText[n], LabelX, LabelY, LabelZ)]
VelTable == [n \in LineNames |-> ParseRow(LineText[n], LabelVX, LabelVY, LabelVZ)]
EcTable  == [n \in LineNames |-> ParseRow(LineText[n], LabelEC, LabelQR, LabelIN)]
OmTable  == [n \in LineNames |-> ParseRow(LineText[n], LabelOM, LabelW, LabelTp)]
NTable   == [n \in LineNames |-> ParseRow(LineText[n], LabelN, LabelMA, LabelTA)]
ATable   == [n \in LineNames |-> RowColumns(LineText[n], LabelA, LabelAD, LabelPR)]

\* The three values of the columns of ATable, where the columns are there.
AValuesTable ==
    [n \in LineNames |->
        IF ATable[n].panic THEN Panic ELSE RowValues(ATable[n].cols)]

-----------------------------------------------------------------------------
(* The inputs                                                              *)

\* The number of fragments an input is put together from.
MaxFragments == 3

VectorCycleA == <<"dateA", "posA", "velA", "aux">>
VectorCycleB == <<"dateB", "posB", "velB", "aux">>

ElementsCycleA == <<"dateA", "ecA", "omA", "nA", "aA">>
ElementsCycleB == <<"dateB", "ecB", "omB", "nB", "aB">>

CommonLines == {"soe", "eoe", "soe_sp", "empty", "header", "dateA", "date_bad"}

\* Pieces of a service response: every single line, whole cycles, a cycle cut
\* off before its last line, and a data region without a record.
Fragments(k) ==
    IF k = "vector"
    THEN {<<n>> : n \in CommonLines \cup {"posA", "velA", "aux", "pos_lbl",
                                         "pos_nan", "pos_cut", "pos_wide"}}
         \cup {VectorCycleA, VectorCycleB, SubSeq(VectorCycleA, 1, 3),
               <<"soe", "eoe">>}
    ELSE {<<n>> : n \in CommonLines \cup {"ecA", "omA", "nA", "aA", "a_nan"}}
         \cup {ElementsCycleA, ElementsCycleB, SubSeq(ElementsCycleA, 1, 4),
               <<"soe", "eoe">>}

RECURSIVE Flatten(_)
Flatten(ss) == IF ss = <<>> THEN <<>> ELSE Head(ss) \o Flatten(Tail(ss))

Inputs(k) ==
    {Flatten(fs) : fs \in UNION {[1..n -> Fragments(k)] : n \in 0..MaxFragments}}

Kinds == {"vector", "elements"}

-----------------------------------------------------------------------------
(* The record machines                                                     *)

\* The instances of a run with a single decoder.
Single == {1}

NotCalled == [tag |-> "NotCalled"]
Pending   == [tag |-> "Pending"]
None      == [tag |-> "None"]
Some(item) == [tag |-> "Some", item |-> item]

NoCall == [fn |-> "none"]

\* EphemerisVectorParser::parse / EphemerisOrbitalElementsParser::parse
ParserInit(k, lines) ==
    /\ kind = (1 :> k)
    /\ input = (1 :> lines)
    /\ pos = (1 :> 0)
    /\ state = (1 :> [tag |-> "WaitingForSoe"])
    /\ pc = (1 :> "idle")
    /\ ret = (1 :> NotCalled)
    /\ out = (1 :> <<>>)

Init ==
    /\ \E k \in Kinds : \E lines \in Inputs(k) : ParserInit(k, lines)
    /\ call = NoCall
    /\ result = NoCall

\* The caller calls next().
Pull(i) ==
    /\ pc[i] = "idle"
    /\ pc' = [pc EXCEPT ![i] = "running"]
    /\ ret' = [ret EXCEPT ![i] = Pending]
    /\ UNCHANGED <<kind, input, pos, state, out, call, result>>

\* self.input.next() yields a line: the guard of every arm of the match.
Reads(i, k, tag) ==
    /\ pc[i] = "running"
    /\ kind[i] = k
    /\ pos[i] < Len(input[i])
    /\ state[i].tag = tag

Line(i) == input[i][pos[i] + 1]

\* Continue with the `state` field in one place for all instances.
ContinueSharedState(i, st) ==
    /\ pos' = [pos EXCEPT ![i] = @ + 1]
    /\ state' = [j \in DOMAIN state |-> st]
    /\ UNCHANGED <<kind, input, pc, ret, out, call, result>>

\* The loop goes round: the line is consumed and next() has not returned.
Continue(i, st) ==
    /\ pos' = [pos EXCEPT ![i] = @ + 1]
    /\ state' = [state EXCEPT ![i] = st]
    /\ UNCHANGED <<kind, input, pc, ret, out, call, result>>

\* Abort that takes back the items handed out so far.
AbortClearing(i, st) ==
    /\ pos' = [pos EXCEPT ![i] = @ + 1]
    /\ state' = [state EXCEPT ![i] = st]
    /\ pc' = [pc EXCEPT ![i] = "panicked"]
    /\ out' = [out EXCEPT ![i] = <<>>]
    /\ UNCHANGED <<kind, input, ret, call, result>>

\* Abort that skips the line instead: the loop goes round.
AbortResuming(i, st) ==
    /\ pos' = [pos EXCEPT ![i] = @ + 1]
    /\ state' = [state EXCEPT ![i] = st]
    /\ UNCHANGED <<kind, input, pc, ret, out, call, result>>

\* An unwrap() or an index unwinds out of next().
Abort(i, st) ==
    /\ pos' = [pos EXCEPT ![i] = @ + 1]
    /\ state' = [state EXCEPT ![i] = st]
    /\ pc' = [pc EXCEPT ![i] = "panicked"]
    /\ UNCHANGED <<kind, input, ret, out, call, result>>

\* ReturnSome that has pulled one more line out of the input than the item
\* needed.
ReturnSomeReadingAhead(i, st, item) ==
    /\ pos' = [pos EXCEPT ![i] = IF @ + 1 < Len(input[i]) THEN @ + 2 ELSE @ + 1]
    /\ state' = [state EXCEPT ![i] = st]
    /\ pc' = [pc EXCEPT ![i] = "idle"]
    /\ ret' = [ret EXCEPT ![i] = Some(item)]
    /\ out' = [out EXCEPT ![i] = Append(@, item)]
    /\ UNCHANGED <<kind, input, call, result>>

\* return Some(item)
ReturnSome(i, st, item) ==
    /\ pos' = [pos EXCEPT ![i] = @ + 1]
    /\ state' = [state EXCEPT ![i] = st]
    /\ pc' = [pc EXCEPT ![i] = "idle"]
    /\ ret' = [ret EXCEPT ![i] = Some(item)]
    /\ out' = [out EXCEPT ![i] = Append(@, item)]
    /\ UNCHANGED <<kind, input, call, result>>

\* ReturnNone that leaves the line it was given in the input.
ReturnNoneUnread(i, read) ==
    /\ pc' = [pc EXCEPT ![i] = "idle"]
    /\ ret' = [ret EXCEPT ![i] = None]
    /\ UNCHANGED <<kind, input, pos, state, out, call, result>>

\* return None, after a line was read or not
ReturnNone(i, read) ==
    /\ pos' = [pos EXCEPT ![i] = @ + read]
    /\ pc' = [pc EXCEPT ![i] = "idle"]
    /\ ret' = [ret EXCEPT ![i] = None]
    /\ UNCHANGED <<kind, input, state, out, call, result>>

\* Drained with a flush: at the end of the input a cycle that lacks only its
\* auxiliary line is handed out.
DrainedFlushing(i) ==
    /\ pc[i] = "running"
    /\ pos[i] = Len(input[i])
    /\ IF state[i].tag = "Complete"
       THEN /\ pc' = [pc EXCEPT ![i] = "idle"]
            /\ ret' = [ret EXCEPT ![i] = Some([time |-> state[i].time,
                                               position |-> state[i].position,
                                               velocity |-> state[i].velocity])]
            /\ out' = [out EXCEPT ![i] = Append(@, ret'[i].item)]
            /\ state' = [state EXCEPT ![i] = [tag |-> "WaitingForDate"]]
            /\ UNCHANGED <<kind, input, pos, call, result>>
       ELSE ReturnNone(i, 0)

\* The input iterator is drained.
Drained(i) ==
    /\ pc[i] = "running"
    /\ pos[i] = Len(input[i])
    /\ ReturnNone(i, 0)

\* AwaitSoe that reads no further while the line is not `$$SOE`.
AwaitSoeNotReading(i) ==
    IF LineText[Line(i)] = SoeText
    THEN Continue(i, [tag |-> "WaitingForDate"])
    ELSE UNCHANGED vars

\* AwaitSoe with `line.starts_with("$$SOE")` for `line == "$$SOE"`.
AwaitSoePrefix(i) ==
    Continue(i, IF /\ Len(LineText[Line(i)]) >= Len(SoeText)
                   /\ SubSeq(LineText[Line(i)], 1, Len(SoeText)) = SoeText
                THEN [tag |-> "WaitingForDate"] ELSE state[i])

\* The arm of WaitingForSoe, the same in both machines.
AwaitSoe(i) ==
    Continue(i, IF LineText[Line(i)] = SoeText
                THEN [tag |-> "WaitingForDate"] ELSE state[i])

\* What the arm of WaitingForDate does with the decoded time.
DateArm(i, t) ==
    IF t.panic THEN Abort(i, state[i])
    ELSE Continue(i, [tag |-> "Date", time |-> t.time])

\* The arm of WaitingForDate, the same in both machines.
AwaitDate(i) ==
    IF LineText[Line(i)] = EoeText
    THEN Continue(i, [tag |-> "End"])
    ELSE DateArm(i, DateTable[Line(i)])

\* A data arm that goes round the loop: the row r decoded and, when no
\* unwrap() has panicked, the state st assigned.
DataArm(i, r, st) ==
    IF r.panic THEN Abort(i, state[i])
    ELSE Continue(i, st)

\* PositionState that goes straight to Complete, the position taken for the
\* velocity as well.
PositionStateSkipping(st, vals) ==
    [tag |-> "Complete", time |-> st.time, position |-> vals, velocity |-> vals]

PositionState(st, vals) ==
    [tag |-> "Position", time |-> st.time, position |-> vals]

\* CompleteState with the velocity written over the position as well.
CompleteStateOverwriting(st, vals) ==
    [tag |-> "Complete", time |-> st.time, position |-> vals, velocity |-> vals]

CompleteState(st, vals) ==
    [tag |-> "Complete", time |-> st.time, position |-> st.position,
     velocity |-> vals]

VectorItem(st) ==
    [time |-> st.time, position |-> st.position, velocity |-> st.velocity]

VecWaitingForSoe(i) ==
    /\ Reads(i, "vector", "WaitingForSoe")
    /\ AwaitSoe(i)

VecWaitingForDate(i) ==
    /\ Reads(i, "vector", "WaitingForDate")
    /\ AwaitDate(i)

VecDate(i) ==
    /\ Reads(i, "vector", "Date")
    /\ DataArm(i, PosTable[Line(i)],
               PositionState(state[i], PosTable[Line(i)].vals))

\* VecPosition that hands out the item with the velocity line.
VecPositionEmitting(i) ==
    /\ Reads(i, "vector", "Position")
    /\ IF VelTable[Line(i)].panic THEN Abort(i, state[i])
       ELSE ReturnSome(i, [tag |-> "WaitingForDate"],
                       VectorItem(CompleteState(state[i], VelTable[Line(i)].vals)))

VecPosition(i) ==
    /\ Reads(i, "vector", "Position")
    /\ DataArm(i, VelTable[Line(i)],
               CompleteState(state[i], VelTable[Line(i)].vals))

\* VecComplete that emits the item and, on `$$EOE`, goes to End.
VecCompleteEnding(i) ==
    /\ Reads(i, "vector", "Complete")
    /\ ReturnSome(i, IF LineText[Line(i)] = EoeText THEN [tag |-> "End"]
                     ELSE [tag |-> "WaitingForDate"],
                  VectorItem(state[i]))

\* VecComplete that looks at the line: `$$EOE` ends the sequence.
VecCompleteLooking(i) ==
    /\ Reads(i, "vector", "Complete")
    /\ IF LineText[Line(i)] = EoeText
       THEN Continue(i, [tag |-> "End"])
       ELSE ReturnSome(i, [tag |-> "WaitingForDate"], VectorItem(state[i]))

\* The line read in Complete is not looked at.
VecComplete(i) ==
    /\ Reads(i, "vector", "Complete")
    /\ ReturnSome(i, [tag |-> "WaitingForDate"], VectorItem(state[i]))

\* VecEnd that starts over at a further `$$SOE`.
VecEndRestarting(i) ==
    /\ Reads(i, "vector", "End")
    /\ IF LineText[Line(i)] = SoeText
       THEN Continue(i, [tag |-> "WaitingForDate"])
       ELSE ReturnNone(i, 1)

VecEnd(i) ==
    /\ Reads(i, "vector", "End")
    /\ ReturnNone(i, 1)

VectorNext(i) ==
    \/ VecWaitingForSoe(i)
    \/ VecWaitingForDate(i)
    \/ VecDate(i)
    \/ VecPosition(i)
    \/ VecComplete(i)
    \/ VecEnd(i)

FirstRowState(st, vals) ==
    [tag |-> "FirstRow", time |-> st.time,
     eccentricity |-> vals[1],
     periapsis_distance |-> vals[2],
     inclination |-> vals[3]]

\* SecondRowState with OM and W exchanged.
SecondRowStateSwapped(st, vals) ==
    [tag |-> "SecondRow", time |-> st.time,
     eccentricity |-> st.eccentricity,
     periapsis_distance |-> st.periapsis_distance,
     inclination |-> st.inclination,
     longitude_of_ascending_node |-> vals[2],
     argument_of_perifocus |-> vals[1],
     time_of_periapsis |-> vals[3]]

SecondRowState(st, vals) ==
    [tag |-> "SecondRow", time |-> st.time,
     eccentricity |-> st.eccentricity,
     periapsis_distance |-> st.periapsis_distance,
     inclination |-> st.inclination,
     longitude_of_ascending_node |-> vals[1],
     argument_of_perifocus |-> vals[2],
     time_of_periapsis |-> vals[3]]

ThirdRowState(st, vals) ==
    [tag |-> "ThirdRow", time |-> st.time,
     eccentricity |-> st.eccentricity,
     periapsis_distance |-> st.periapsis_distance,
     inclination |-> st.inclination,
     longitude_of_ascending_node |-> st.longitude_of_ascending_node,
     argument_of_perifocus |-> st.argument_of_perifocus,
     time_of_periapsis |-> st.time_of_periapsis,
     mean_motion |-> vals[1],
     mean_anomaly |-> vals[2],
     true_anomaly |-> vals[3]]

\* The item of the last arm: the nine values carried by ThirdRow and the
\* three of the fourth row.
ElementsItem(st, vals) ==
    [time |-> st.time,
     eccentricity |-> st.eccentricity,
     periapsis_distance |-> st.periapsis_distance,
     inclination |-> st.inclination,
     longitude_of_ascending_node |-> st.longitude_of_ascending_node,
     argument_of_perifocus |-> st.argument_of_perifocus,
     time_of_periapsis |-> st.time_of_periapsis,
     mean_motion |-> st.mean_motion,
     mean_anomaly |-> st.mean_anomaly,
     true_anomaly |-> st.true_anomaly,
     semi_major_axis |-> vals[1],
     apoapsis_distance |-> vals[2],
     siderral_orbit_period |-> vals[3]]

\* LastValues without the assignment of self.state.
LastValuesKeepingState(i, v) ==
    IF v.panic THEN Abort(i, state[i])
    ELSE ReturnSome(i, state[i], ElementsItem(state[i], v.vals))

\* The end of the last arm: self.state is assigned, then the three columns
\* are parsed inside the item expression.
LastValues(i, v) ==
    IF v.panic THEN Abort(i, [tag |-> "WaitingForDate"])
    ELSE ReturnSome(i, [tag |-> "WaitingForDate"], ElementsItem(state[i], v.vals))

\* The last arm assigns self.state before it parses the three columns, so a
\* column that is not a number unwinds with the state already WaitingForDate.
LastArm(i, c, v) ==
    IF c.panic THEN Abort(i, state[i]) ELSE LastValues(i, v)

OeWaitingForSoe(i) ==
    /\ Reads(i, "elements", "WaitingForSoe")
    /\ AwaitSoe(i)

OeWaitingForDate(i) ==
    /\ Reads(i, "elements", "WaitingForDate")
    /\ AwaitDate(i)

OeDate(i) ==
    /\ Reads(i, "elements", "Date")
    /\ DataArm(i, EcTable[Line(i)],
               FirstRowState(state[i], EcTable[Line(i)].vals))

OeFirstRow(i) ==
    /\ Reads(i, "elements", "FirstRow")
    /\ DataArm(i, OmTable[Line(i)],
               SecondRowState(state[i], OmTable[Line(i)].vals))

OeSecondRow(i) ==
    /\ Reads(i, "elements", "SecondRow")
    /\ DataArm(i, NTable[Line(i)],
               ThirdRowState(state[i], NTable[Line(i)].vals))

OeThirdRow(i) ==
    /\ Reads(i, "elements", "ThirdRow")
    /\ LastArm(i, ATable[Line(i)], AValuesTable[Line(i)])

OeEnd(i) ==
    /\ Reads(i, "elements", "End")
    /\ ReturnNone(i, 1)

ElementsNext(i) ==
    \/ OeWaitingForSoe(i)
    \/ OeWaitingForDate(i)
    \/ OeDate(i)
    \/ OeFirstRow(i)
    \/ OeSecondRow(i)
    \/ OeThirdRow(i)
    \/ OeEnd(i)

\* One step of the instance i: the caller's call or one round of the loop of
\* next().
Step(i) ==
    \/ Pull(i)
    \/ Drained(i)
    \/ VectorNext(i)
    \/ ElementsNext(i)

Next == \E i \in Single : Step(i)

Spec == Init /\ [][Next]_vars

-----------------------------------------------------------------------------
(* The field slicers called on their own                                   *)

\* The length, in characters, of the strings the slicers are called with.
MaxStrLen == 3

SliceAlphabet == {"a", "b", WideChar}

SliceStrings == UNION {[1..n -> SliceAlphabet] : n \in 0..MaxStrLen}

\* One more than the longest string has bytes, so that n > len(s) occurs.
SliceCounts == 0..(2 * MaxStrLen + 1)

SliceCalls ==
    {[fn |-> "take_or_empty", value |-> v, n |-> n] :
        v \in SliceStrings, n \in SliceCounts}
    \cup {[fn |-> "take_expecting", value |-> v, expected |-> e] :
        v \in SliceStrings, e \in SliceStrings}

NoParser ==
    /\ kind = <<>>
    /\ input = <<>>
    /\ pos = <<>>
    /\ state = <<>>
    /\ pc = <<>>
    /\ ret = <<>>
    /\ out = <<>>

SliceInit ==
    /\ NoParser
    /\ call \in SliceCalls
    /\ result = NoCall

TakeOrEmptyCall ==
    /\ call.fn = "take_or_empty"
    /\ result = NoCall
    /\ result' = take_or_empty(call.value, call.n)
    /\ UNCHANGED <<parserVars, call>>

TakeExpectingCall ==
    /\ call.fn = "take_expecting"
    /\ result = NoCall
    /\ result' = take_expecting(call.value, call.expected)
    /\ UNCHANGED <<parserVars, call>>

SliceNext == TakeOrEmptyCall \/ TakeExpectingCall

SliceSpec == SliceInit /\ [][SliceNext]_vars

-----------------------------------------------------------------------------
(* Properties                                                              *)

\* The index of the first line equal to `$$SOE`, 0 when there is none.
SoeIndex(lines) ==
    LET js == {j \in 1..Len(lines) : LineText[lines[j]] = SoeText}
    IN  IF js = {} THEN 0 ELSE CHOOSE j \in js : \A m \in js : j <= m

\* The index of the first line equal to `$$EOE` after index s, 0 when none.
EoeIndexAfter(lines, s) ==
    LET js == {j \in (s + 1)..Len(lines) : LineText[lines[j]] = EoeText}
    IN  IF js = {} THEN 0 ELSE CHOOSE j \in js : \A m \in js : j <= m

IsDateLine(n) == ~DateTable[n].panic
IsPositionLine(n) == ~PosTable[n].panic
IsVelocityLine(n) == ~VelTable[n].panic

RECURSIVE CompleteVectorCycles(_)
\* The number of complete cycles a region starts with: a timestamp line, a
\* position line, a velocity line and one more line, over and over.
CompleteVectorCycles(lines) ==
    IF /\ Len(lines) >= 4
       /\ IsDateLine(lines[1])
       /\ IsPositionLine(lines[2])
       /\ IsVelocityLine(lines[3])
    THEN 1 + CompleteVectorCycles(SubSeq(lines, 5, Len(lines)))
    ELSE 0

\* The lines strictly between the first `$$SOE` and the first `$$EOE` after it.
SentinelRegion(lines) ==
    SubSeq(lines, SoeIndex(lines) + 1, EoeIndexAfter(lines, SoeIndex(lines)) - 1)

Bounded(lines) == SoeIndex(lines) > 0 /\ EoeIndexAfter(lines, SoeIndex(lines)) > 0

\* collect() has come to its end: next() has returned None.
Collected(i) == pc[i] = "idle" /\ ret[i] = None

\* C1: for an input with a `$$SOE` line and a later `$$EOE` line, collecting
\* the vector parser gives exactly as many items as there are complete cycles
\* (timestamp, position, velocity, auxiliary line) between the sentinels; a
\* trailing cycle that lacks one of its lines before `$$EOE` gives none.
C1_ItemsEqualCompleteCycles ==
    \A i \in DOMAIN kind :
        (kind[i] = "vector" /\ Bounded(input[i]) /\ Collected(i))
            => Len(out[i]) = CompleteVectorCycles(SentinelRegion(input[i]))

MidCycleTags == {"Date", "Position", "Complete", "FirstRow", "SecondRow", "ThirdRow"}

\* The number of lines of the current cycle the machine has taken in.
LinesIntoCycle(tag) ==
    CASE tag = "Date" -> 1
      [] tag \in {"Position", "FirstRow"} -> 2
      [] tag \in {"Complete", "SecondRow"} -> 3
      [] tag = "ThirdRow" -> 4
      [] OTHER -> 0

CycleLength(k) == IF k = "vector" THEN 4 ELSE 5

\* The input has ended inside a cycle whose lines so far were taken in.
TruncatedMidCycle(i) ==
    /\ pc[i] # "panicked"
    /\ pos[i] = Len(input[i])
    /\ state[i].tag \in MidCycleTags

\* C2: when the input of either machine ends in the middle of a cycle, the
\* pull returns None without aborting, the machine stays where it is, and no
\* item is emitted for the partial cycle, then or later: the items are those
\* of the whole cycles before it.
C2_TruncatedInputEndsCleanly ==
    /\ [](\A i \in DOMAIN kind :
            TruncatedMidCycle(i) =>
                /\ ret[i].tag # "Some"
                /\ pos[i] = SoeIndex(input[i]) + CycleLength(kind[i]) * Len(out[i])
                            + LinesIntoCycle(state[i].tag))
    /\ [][\A i \in DOMAIN kind :
            TruncatedMidCycle(i) =>
                /\ out'[i] = out[i]
                /\ state'[i] = state[i]
                /\ pc'[i] # "panicked"
                /\ pc[i] = "running" => (pc'[i] = "idle" /\ ret'[i] = None)]_vars

\* A pull has returned None on an orbital-elements input that ends after the
\* third data line of its second cycle.
C2_Witness ==
    \E i \in DOMAIN kind :
        /\ kind[i] = "elements"
        /\ TruncatedMidCycle(i)
        /\ state[i].tag = "ThirdRow"
        /\ Len(out[i]) = 1
        /\ Collected(i)

\* C3: a line inside a cycle with a wrong label or a field that is not a
\* number never aborts the process (the pull hands back a typed failure).
C3_NoAbort == \A i \in DOMAIN pc : pc[i] # "panicked"

\* C4: once a machine has read `$$EOE` where a timestamp line is expected it
\* is in End for good: every later pull returns None and emits nothing,
\* whatever lines remain.
C4_EndIsTerminal ==
    /\ [](\A i \in DOMAIN kind :
            (state[i].tag = "End" /\ pc[i] = "idle") => ret[i] = None)
    /\ [][\A i \in DOMAIN kind :
            /\ (/\ state[i].tag = "WaitingForDate"
                /\ pos'[i] = pos[i] + 1
                /\ LineText[input[i][pos[i] + 1]] = EoeText)
               => state'[i].tag = "End"
            /\ state[i].tag = "End"
               => /\ state'[i].tag = "End"
                  /\ out'[i] = out[i]
                  /\ pc'[i] # "panicked"
                  /\ ret'[i] \in {ret[i], Pending, None}]_vars

\* The machine is in End although a further `$$SOE` and a whole cycle came
\* after `$$EOE` and were read by pulls that returned None.
C4_Witness ==
    \E i \in DOMAIN kind :
        /\ kind[i] = "vector"
        /\ input[i] = <<"soe", "eoe", "soe">> \o VectorCycleA
        /\ pos[i] = Len(input[i])
        /\ state[i].tag = "End"
        /\ Collected(i)
        /\ out[i] = <<>>

\* C5: up to the first line exactly equal to `$$SOE` both machines are in
\* WaitingForSoe, have emitted nothing and have not aborted, whatever the
\* lines are; with that line read they have left WaitingForSoe.  An input
\* without such a line gives no item.
C5_DiscardsUntilSoe ==
    \A i \in DOMAIN kind :
        LET s == SoeIndex(input[i])
        IN  IF s = 0 \/ pos[i] < s
            THEN /\ state[i].tag = "WaitingForSoe"
                 /\ out[i] = <<>>
                 /\ pc[i] # "panicked"
            ELSE state[i].tag # "WaitingForSoe"

\* An input without `$$SOE` that holds `$$EOE`, a timestamp line and a nearly
\* right `$$SOE ` has been read to its end.
C5_Witness ==
    \E i \in DOMAIN kind :
        /\ kind[i] = "vector"
        /\ input[i] = <<"eoe", "dateA", "soe_sp">>
        /\ Collected(i)
        /\ pos[i] = 3

\* The item a vector cycle that starts at line j stands for.
VectorCycleItem(lines, j) ==
    [time |-> DateTable[lines[j]].time,
     position |-> PosTable[lines[j + 1]].vals,
     velocity |-> VelTable[lines[j + 2]].vals]

\* C6: the k-th item of the vector parser is made of the k-th cycle alone:
\* the time of its timestamp line, [X, Y, Z] of the next line and
\* [VX, VY, VZ] of the one after; the items come in input order.
C6_ItemFromOneCycle ==
    \A i \in DOMAIN kind :
        kind[i] = "vector" =>
            \A k \in 1..Len(out[i]) :
                LET j == SoeIndex(input[i]) + 4 * (k - 1) + 1
                IN  /\ j + 3 <= pos[i]
                    /\ out[i][k] = VectorCycleItem(input[i], j)

\* Two different cycles have given their two items.
C6_Witness ==
    \E i \in DOMAIN kind :
        /\ kind[i] = "vector"
        /\ out[i] = <<[time |-> TimeA, position |-> <<11, 12, 0 - 13>>,
                       velocity |-> <<14, 15, 16>>],
                      [time |-> TimeB, position |-> <<21, 22, 23>>,
                       velocity |-> <<24, 0 - 25, 26>>]>>

IsEcLine(n) == ~EcTable[n].panic
IsOmLine(n) == ~OmTable[n].panic
IsNLine(n)  == ~NTable[n].panic

\* The three values of a fourth row.
AValues(n) == RowValues(ATable[n].cols)

IsALine(n) == IF ATable[n].panic THEN FALSE ELSE ~AValues(n).panic

\* Does the slot m of an orbital-elements cycle (0: timestamp, 1..4: the data
\* lines) take the line n?
SlotAccepts(m, n) ==
    CASE m = 0 -> IsDateLine(n)
      [] m = 1 -> IsEcLine(n)
      [] m = 2 -> IsOmLine(n)
      [] m = 3 -> IsNLine(n)
      [] OTHER -> IsALine(n)

RECURSIVE CompleteElementsCycles(_)
\* The number of complete cycles a region starts with: a timestamp line and
\* the four data lines in their order, over and over.
CompleteElementsCycles(lines) ==
    IF Len(lines) >= 5 /\ \A m \in 0..4 : SlotAccepts(m, lines[m + 1])
    THEN 1 + CompleteElementsCycles(SubSeq(lines, 6, Len(lines)))
    ELSE 0

\* The lines read so far after the first `$$SOE`.
ReadAfterSoe(i) ==
    IF SoeIndex(input[i]) = 0 THEN <<>>
    ELSE SubSeq(input[i], SoeIndex(input[i]) + 1, pos[i])

\* C7: the orbital-elements parser has emitted exactly one item for each
\* complete cycle (timestamp line and four data lines) it has read after
\* `$$SOE`; an item is emitted by the step that takes the fourth data line
\* and by no other, that step returns the item from the pull, and it leaves
\* the machine in WaitingForDate.
C7_OneItemPerCycle ==
    /\ [](\A i \in DOMAIN kind :
            kind[i] = "elements" =>
                Len(out[i]) = CompleteElementsCycles(ReadAfterSoe(i)))
    /\ [][\A i \in DOMAIN kind :
            kind[i] = "elements" =>
                /\ (/\ state[i].tag = "ThirdRow"
                    /\ pos'[i] = pos[i] + 1
                    /\ pc'[i] # "panicked")
                   => /\ pc'[i] = "idle"
                      /\ ret'[i].tag = "Some"
                      /\ out'[i] = Append(out[i], ret'[i].item)
                      /\ state'[i] = [tag |-> "WaitingForDate"]
                /\ out'[i] # out[i] => state[i].tag = "ThirdRow"]_vars

\* The pull that took the fourth data line of the second cycle has returned
\* the second item.
C7_Witness ==
    \E i \in DOMAIN kind :
        /\ kind[i] = "elements"
        /\ Len(out[i]) = 2
        /\ pc[i] = "idle"
        /\ ret[i] = Some(out[i][2])
        /\ pos[i] = SoeIndex(input[i]) + 10
        /\ state[i].tag = "WaitingForDate"

\* The item an orbital-elements cycle that starts at line j stands for.
ElementsCycleItem(lines, j) ==
    [time |-> DateTable[lines[j]].time,
     eccentricity |-> EcTable[lines[j + 1]].vals[1],
     periapsis_distance |-> EcTable[lines[j + 1]].vals[2],
     inclination |-> EcTable[lines[j + 1]].vals[3],
     longitude_of_ascending_node |-> OmTable[lines[j + 2]].vals[1],
     argument_of_perifocus |-> OmTable[lines[j + 2]].vals[2],
     time_of_periapsis |-> OmTable[lines[j + 2]].vals[3],
     mean_motion |-> NTable[lines[j + 3]].vals[1],
     mean_anomaly |-> NTable[lines[j + 3]].vals[2],
     true_anomaly |-> NTable[lines[j + 3]].vals[3],
     semi_major_axis |-> AValues(lines[j + 4]).vals[1],
     apoapsis_distance |-> AValues(lines[j + 4]).vals[2],
     siderral_orbit_period |-> AValues(lines[j + 4]).vals[3]]

\* C8: each of the 12 fields of the k-th orbital-elements item is the value
\* under its own label in the k-th cycle (EC, QR, IN; OM, W, Tp; N, MA, TA;
\* A, AD, PR), and the lines taken in after `$$SOE` are, slot by slot, a
\* timestamp line and the four rows in this order: a line that is not the
\* row of its slot aborts, and nothing else does.
C8_FieldsFromOwnLabels ==
    \A i \in DOMAIN kind :
        (kind[i] = "elements" /\ state[i].tag # "End") =>
            LET s == SoeIndex(input[i])
            IN  /\ \A k \in 1..Len(out[i]) :
                       out[i][k] = ElementsCycleItem(input[i], s + 5 * (k - 1) + 1)
                /\ s > 0 =>
                       \A j \in (s + 1)..pos[i] :
                           SlotAccepts((j - s - 1) % 5, input[i][j])
                               <=> (j < pos[i] \/ pc[i] # "panicked")

\* The two cycles of the pool have given their items, each field with the
\* number that stands under its label.
C8_Witness ==
    \E i \in DOMAIN kind :
        /\ kind[i] = "elements"
        /\ out[i] =
             <<[time |-> TimeA, eccentricity |-> 101, periapsis_distance |-> 102,
                inclination |-> 103, longitude_of_ascending_node |-> 104,
                argument_of_perifocus |-> 105, time_of_periapsis |-> 106,
                mean_motion |-> 107, mean_anomaly |-> 108, true_anomaly |-> 109,
                semi_major_axis |-> 110, apoapsis_distance |-> 111,
                siderral_orbit_period |-> 112],
               [time |-> TimeB, eccentricity |-> 201, periapsis_distance |-> 202,
                inclination |-> 203, longitude_of_ascending_node |-> 204,
                argument_of_perifocus |-> 205, time_of_periapsis |-> 206,
                mean_motion |-> 207, mean_anomaly |-> 208, true_anomaly |-> 209,
                semi_major_axis |-> 210, apoapsis_distance |-> 211,
                siderral_orbit_period |-> 212]>>

Min(a, b) == IF a < b THEN a ELSE b

\* C9: take_or_empty(s, n) never fails, its first component has the length
\* min(n, len(s)), and the two components one after the other are s.
C9_TakeOrEmptyLaw ==
    (call.fn = "take_or_empty" /\ result # NoCall) =>
        /\ ~result.panic
        /\ ByteLen(result.fst) = Min(call.n, ByteLen(call.value))
        /\ result.fst \o result.snd = call.value

\* s starts with label, character by character.
StartsWith(s, label) ==
    Len(label) <= Len(s) /\ SubSeq(s, 1, Len(label)) = label

\* C10: take_expecting(s, label) never aborts; when s starts with label it is
\* Ok with the rest of s after the label, otherwise it is the failure that
\* carries s unchanged.
C10_TakeExpectingLaw ==
    (call.fn = "take_expecting" /\ result # NoCall) =>
        /\ ~result.panic
        /\ IF StartsWith(call.value, call.expected)
           THEN /\ result.ok
                /\ result.rest = SubSeq(call.value, Len(call.expected) + 1,
                                        Len(call.value))
           ELSE /\ ~result.ok
                /\ result.err = call.value

-----------------------------------------------------------------------------
(* major_bodies.rs and client.rs: the catalog of major bodies              *)

\* The width of the id column.
IdWidth == 9

\* The width of the name column.
NameWidth == 35

RECURSIVE StripZeros(_)
\* The digits without leading zeros.
StripZeros(ds) ==
    IF ds # <<>> /\ Head(ds) = "0" THEN StripZeros(Tail(ds)) ELSE ds

\* Do the digits ds, without leading zeros, stand for a number above lim + 1
\* (neg) or above lim (~neg), lim = 2147483647?  Ten digits are compared by
\* their first nine and their last.
OverflowsI32(ds, neg) ==
    IF Len(ds) < 10 THEN FALSE
    ELSE IF Len(ds) > 10 THEN TRUE
    ELSE LET hi == NatOf(SubSeq(ds, 1, 9))
             lo == DigitVal(ds[10])
         IN  hi > 214748364 \/ (hi = 214748364 /\ lo > (IF neg THEN 8 ELSE 7))

\* <i32 as FromStr>::from_str: an optional sign, then one or more digits,
\* within the range of i32; anything else is Err(ParseIntError).
ParseI32(s) ==
    LET signed == s # <<>> /\ s[1] \in {"+", "-"}
        neg    == signed /\ s[1] = "-"
        ds     == IF signed THEN Tail(s) ELSE s
        sig    == StripZeros(ds)
    IN  IF ds = <<>> \/ \E j \in 1..Len(ds) : ds[j] \notin Digits THEN Fail
        ELSE IF OverflowsI32(sig, neg) THEN Fail
        ELSE IF Len(sig) = 10
        THEN [ok |-> TRUE,
              val |-> IF neg
                      THEN (0 - 10 * NatOf(SubSeq(sig, 1, 9))) - DigitVal(sig[10])
                      ELSE 10 * NatOf(SubSeq(sig, 1, 9)) + DigitVal(sig[10])]
        ELSE [ok |-> TRUE, val |-> IF neg THEN 0 - NatOf(sig) ELSE NatOf(sig)]

InvalidId == [panic |-> FALSE, ok |-> FALSE, err |-> "InvalidId"]

\* The struct literal of try_from: the id parsed, `?` on its failure, the
\* name trimmed.
MajorBody(id, name) ==
    LET n == ParseI32(Trim(id))
    IN  IF n.ok
        THEN [panic |-> FALSE, ok |-> TRUE,
              body |-> [id |-> n.val, name |-> Trim(name)]]
        ELSE InvalidId

\* NameAndBody with a name column of 36 characters.
NameAndBodyWider(id, value) ==
    LET b == take_or_empty(value, NameWidth + 1)
    IN  IF b.panic THEN Panic ELSE MajorBody(id, b.fst)

\* The second take_or_empty of try_from and the struct literal.
NameAndBody(id, value) ==
    LET b == take_or_empty(value, NameWidth)
    IN  IF b.panic THEN Panic ELSE MajorBody(id, b.fst)

\* <MajorBody as TryFrom<&str>>::try_from
try_from(value) ==
    LET a == take_or_empty(value, IdWidth)
    IN  IF a.panic THEN Panic ELSE NameAndBody(a.fst, a.snd)

Rep(c, n) == [j \in 1..n |-> c]

PadLeft(s, w) == IF Len(s) < w THEN Spaces(w - Len(s)) \o s ELSE s

PadRight(s, w) == IF Len(s) < w THEN s \o Spaces(w - Len(s)) ELSE s

\* What stands in the first columns of a line of the response.
IdParts ==
    [zero   |-> PadLeft(<<"0">>, IdWidth),
     saturn |-> PadLeft(<<"6", "9", "9">>, IdWidth),
     change |-> <<" ", " ", "-", "7", "8", "0", "0", "0", " ">>,
     plus   |-> PadLeft(<<"+", "5">>, IdWidth),
     full   |-> <<"1", "2", "3", "4", "5", "6", "7", "8", "9">>,
     bare   |-> <<"6", "9", "9">>,
     blank  |-> Spaces(IdWidth),
     stars  |-> Rep("*", IdWidth),
     head   |-> <<" ", " ", "I", "D", "#", " ", " ", " ", " ">>,
     dash   |-> PadLeft(<<"-">>, IdWidth),
     alnum  |-> PadLeft(<<"1", "2", "a">>, IdWidth),
     none   |-> <<>>,
     wide   |-> Spaces(IdWidth - 1) \o <<WideChar>>,
     wide2  |-> <<"1", "2", "3", "4", "5", "6", WideChar, WideChar>>]

\* What follows the id: nothing, a name, a name that fills its column, one
\* that is longer, names with a character of two bytes inside the column and
\* across its end.
NameParts ==
    [none     |-> <<>>,
     io       |-> <<" ", " ", "I", "o">>,
     saturn   |-> <<" ", " ", "S", "a", "t", "u", "r", "n">>,
     fit      |-> <<" ", " ">> \o Rep("N", NameWidth - 2),
     over     |-> <<" ", " ">> \o Rep("N", NameWidth - 2) \o <<"X", "Y">>,
     wide_in  |-> <<" ", " ", "R", WideChar, "u", "n", "i", "o", "n">>,
     wide_cut |-> <<" ", " ">> \o Rep("N", NameWidth - 3) \o <<WideChar, "Z">>,
     full     |-> Rep("N", NameWidth) \o <<"X">>,
     spaces   |-> Spaces(4)]

\* What follows the name column: nothing, or the designation column.
TailParts ==
    [none |-> <<>>,
     ssb  |-> <<" ", "S", "S", "B">>]

\* The lines of a response to COMMAND=MB: an id part, a name part and a tail
\* part; a part that is cut short by the end of the line is followed by
\* nothing.
BodyLines ==
    {l \in [id : DOMAIN IdParts, name : DOMAIN NameParts, tail : DOMAIN TailParts] :
        /\ l.id \in {"bare", "none", "wide2"} => l.name = "none"
        /\ l.name = "none" => l.tail = "none"}

BodyText(l) ==
    IdParts[l.id]
    \o (IF l.tail = "none" THEN NameParts[l.name]
        ELSE PadRight(NameParts[l.name], NameWidth) \o TailParts[l.tail])

\* The decoding of every line of the pool, computed once.
BodyTable == [l \in BodyLines |-> try_from(BodyText(l))]

\* The number of lines of a response with more than one line.
MaxBodyLines == 3

\* The lines the longer responses are made of.
CatalogLines ==
    {[id |-> "zero", name |-> "io", tail |-> "ssb"],
     [id |-> "saturn", name |-> "saturn", tail |-> "none"],
     [id |-> "change", name |-> "over", tail |-> "none"],
     [id |-> "stars", name |-> "fit", tail |-> "none"],
     [id |-> "head", name |-> "saturn", tail |-> "ssb"],
     [id |-> "none", name |-> "none", tail |-> "none"],
     [id |-> "saturn", name |-> "wide_cut", tail |-> "none"]}

Responses ==
    {<<l>> : l \in BodyLines}
    \cup UNION {[1..n -> CatalogLines] : n \in 0..MaxBodyLines}

Catalog(bodies) == [tag |-> "Catalog", bodies |-> bodies]

\* major_bodies() once query_with_retries has handed back the lines: the
\* iterator chain is about to be driven by collect().
BodiesInit ==
    /\ kind = (1 :> "bodies")
    /\ \E lines \in Responses : input = (1 :> lines)
    /\ pos = (1 :> 0)
    /\ state = (1 :> [tag |-> "FilterMap"])
    /\ pc = (1 :> "running")
    /\ ret = (1 :> Pending)
    /\ out = (1 :> <<>>)
    /\ call = NoCall
    /\ result = NoCall

\* What filter_map does with the result r of try_from on the next line:
\* Ok(body).ok() is kept, Err(_).ok() is None and left out, a panic unwinds
\* out of major_bodies().
FilterMap(i, r) ==
    /\ pos' = [pos EXCEPT ![i] = @ + 1]
    /\ result' = r
    /\ pc' = [pc EXCEPT ![i] = IF r.panic THEN "panicked" ELSE @]
    /\ out' = [out EXCEPT ![i] = IF r.panic THEN @
                                 ELSE IF r.ok THEN Append(@, r.body) ELSE @]

\* One line of the response goes through filter_map.
FilterMapLine(i) ==
    /\ kind[i] = "bodies"
    /\ pc[i] = "running"
    /\ pos[i] < Len(input[i])
    /\ call' = [fn |-> "try_from", value |-> Line(i)]
    /\ FilterMap(i, BodyTable[Line(i)])
    /\ UNCHANGED <<kind, input, state, ret>>

\* collect() has seen the last line: major_bodies() returns the vector.
CollectBodies(i) ==
    /\ kind[i] = "bodies"
    /\ pc[i] = "running"
    /\ pos[i] = Len(input[i])
    /\ pc' = [pc EXCEPT ![i] = "idle"]
    /\ ret' = [ret EXCEPT ![i] = Catalog(out[i])]
    /\ UNCHANGED <<kind, input, pos, state, out, call, result>>

BodiesNext == \E i \in Single : FilterMapLine(i) \/ CollectBodies(i)

BodiesSpec == BodiesInit /\ [][BodiesNext]_vars

\* The characters of the columns [a, b) of a line.
ColumnsOf(text, a, b) == SubSeq(text, a + 1, Min(b, Len(text)))

\* An optional sign and then one or more digits.
IsSignedInteger(s) ==
    LET ds == IF s # <<>> /\ s[1] \in {"+", "-"} THEN Tail(s) ELSE s
    IN  ds # <<>> /\ \A j \in 1..Len(ds) : ds[j] \in Digits

IntegerOf(s) ==
    IF s[1] = "-" THEN 0 - NatOf(Tail(s))
    ELSE IF s[1] = "+" THEN NatOf(Tail(s)) ELSE NatOf(s)

\* The id column of the line of the last call of try_from, trimmed.
CalledIdColumn == Trim(ColumnsOf(BodyText(call.value), 0, IdWidth))

\* The name column of that line, trimmed.
CalledNameColumn ==
    Trim(ColumnsOf(BodyText(call.value), IdWidth, IdWidth + NameWidth))

TryFromCalled == call.fn = "try_from" /\ result # NoCall

\* C11: when the columns [0,9) of the line, trimmed, are a signed integer,
\* try_from gives the body with that integer as id (a negative one kept
\* negative) and the columns [9,44), trimmed, as name; a longer name is cut
\* at column 44.
C11_BodyFromColumns ==
    (TryFromCalled /\ IsSignedInteger(CalledIdColumn)) =>
        /\ ~result.panic
        /\ result.ok
        /\ result.body = [id |-> IntegerOf(CalledIdColumn),
                          name |-> CalledNameColumn]

\* C12: for a line whose columns [0,9), trimmed, are not an integer,
\* try_from returns the InvalidId failure and does not abort.
C12_InvalidIdOtherwise ==
    (TryFromCalled /\ ~IsSignedInteger(CalledIdColumn)) => result = InvalidId

RECURSIVE DecodedBodies(_)
\* The bodies of the lines that decode, in the order of the lines.
DecodedBodies(lines) ==
    IF lines = <<>> THEN <<>>
    ELSE LET r == BodyTable[Head(lines)]
         IN  (IF r.panic THEN <<>> ELSE IF r.ok THEN <<r.body>> ELSE <<>>)
             \o DecodedBodies(Tail(lines))

\* C13: a line that fails to decode stops nothing; the bodies collected so
\* far are those of the lines read so far that decode, in their order, and
\* the catalog major_bodies() returns is that of all the lines.
C13_CatalogIsFilteredLines ==
    \A i \in DOMAIN kind :
        kind[i] = "bodies" =>
            /\ pc[i] # "panicked"
            /\ out[i] = DecodedBodies(SubSeq(input[i], 1, pos[i]))
            /\ pc[i] = "idle" => ret[i] = Catalog(DecodedBodies(input[i]))

-----------------------------------------------------------------------------
(* properties.rs: the mass of a body                                       *)

\* The width of the left margin of a line with the mass.
MarginWidth == 45

\* The width of the exponent of the mass.
ExponentWidth == 2

\* The width of the mantissa of the mass.
MantissaWidth == 7

MassLabel == <<"M", "a", "s", "s", " ", "x", "1", "0", "^">>

KgLiteral == <<" ", "(", "k", "g", ")", "=", " ">>

RECURSIVE StripTrailingZeros(_)
StripTrailingZeros(ds) ==
    IF ds # <<>> /\ ds[Len(ds)] = "0"
    THEN StripTrailingZeros(SubSeq(ds, 1, Len(ds) - 1)) ELSE ds

\* The number with the digits whole before the point and the digits part
\* after it: num * 10^(-scale), in lowest terms of the power of ten.
Decimal(neg, whole, part) ==
    LET frac == StripTrailingZeros(part)
        num  == NatOf(whole \o frac)
    IN  [num |-> IF neg THEN 0 - num ELSE num, scale |-> Len(frac)]

\* The text before and after the only point of body, or a failure.
SplitAtPoint(body) ==
    LET ps == {j \in 1..Len(body) : body[j] = "."}
    IN  IF ps = {} THEN [ok |-> TRUE, whole |-> body, part |-> <<>>]
        ELSE IF Cardinality(ps) > 1 THEN Fail
        ELSE LET j == CHOOSE k \in ps : TRUE
             IN  [ok |-> TRUE, whole |-> SubSeq(body, 1, j - 1),
                  part |-> SubSeq(body, j + 1, Len(body))]

\* <f32 as FromStr>::from_str on decimal notation: an optional sign, digits
\* with at most one point, at least one digit; no white space.  The value
\* is kept as an exact decimal.  The forms with an exponent and inf/nan are
\* not modelled: no line of the pool has a letter in a numeric field that
\* is otherwise well-formed.  Anything else is Err(ParseFloatError).
ParseDecimal(s) ==
    LET signed == s # <<>> /\ s[1] \in {"+", "-"}
        p      == SplitAtPoint(IF signed THEN Tail(s) ELSE s)
    IN  IF ~p.ok THEN Fail
        ELSE IF p.whole \o p.part = <<>> THEN Fail
        ELSE IF \E j \in 1..Len(p.whole \o p.part) : (p.whole \o p.part)[j] \notin Digits
        THEN Fail
        ELSE [ok |-> TRUE, val |-> Decimal(signed /\ s[1] = "-", p.whole, p.part)]

\* mantissa * 10_f32.powf(exponent), kept as the pair of its operands.
Mass(mantissa, exponent) == [mantissa |-> mantissa, exponent |-> exponent]

\* The line does not hold the mass: the loop goes on with the next line.
NoMass == [panic |-> FALSE, found |-> FALSE]

\* take_or_empty(line, 7), the mantissa parsed and unwrapped, and the return.
MassMantissa(exponent, line) ==
    LET t == take_or_empty(line, MantissaWidth)
    IN  IF t.panic THEN Panic
        ELSE LET m == ParseDecimal(t.fst)
             IN  IF m.ok
                 THEN [panic |-> FALSE, found |-> TRUE, mass |-> Mass(m.val, exponent)]
                 ELSE Panic

\* `if let Ok(line) = take_expecting(input, " (kg)= ")`
MassAfterExponent(exponent, input_) ==
    LET e == take_expecting(input_, KgLiteral)
    IN  IF e.panic THEN Panic
        ELSE IF e.ok THEN MassMantissa(exponent, e.rest) ELSE NoMass

\* take_or_empty(multiplier, 2) and the exponent parsed and unwrapped.
MassExponent(multiplier) ==
    LET t == take_or_empty(multiplier, ExponentWidth)
    IN  IF t.panic THEN Panic
        ELSE LET x == ParseDecimal(t.fst)
             IN  IF x.ok THEN MassAfterExponent(x.val, t.snd) ELSE Panic

\* `if let Ok(multiplier) = take_expecting(input, "Mass x10^")`
MassAfterMargin(input_) ==
    LET e == take_expecting(input_, MassLabel)
    IN  IF e.panic THEN Panic
        ELSE IF e.ok THEN MassExponent(e.rest) ELSE NoMass

\* The body of the loop of Properties::parse on one line.
MassOfLine(input_) ==
    LET t == take_or_empty(input_, MarginWidth)
    IN  IF t.panic THEN Panic ELSE MassAfterMargin(t.snd)

\* What stands before the label.
MarginParts ==
    [m45   |-> <<" ", " ", "V", "o", "l", ".", " ", "M", "e", "a", "n", " ", "R", "a", "d",
                 "i", "u", "s", " ", "(", "k", "m", ")", " ", " ", " ", " ", "=", " ", "6",
                 "3", "7", "1", ".", "0", "1", "+", "-", "0", ".", "0", "2", " ", " ", " ">>,
     m44   |-> Spaces(MarginWidth - 1),
     m46   |-> Spaces(MarginWidth + 1),
     short |-> <<" ", "G", "E", "O", "P", "H", "Y", "S", "I", "C", "A", "L">>,
     none  |-> <<>>,
     wide  |-> Spaces(MarginWidth - 1) \o <<WideChar>>]

LabelParts ==
    [none    |-> <<>>,
     mass    |-> MassLabel,
     density |-> <<"D", "e", "n", "s", "i", "t", "y", " ", "(", "g", "/", "c", "m", "^", "3", ")">>,
     cut     |-> <<"M", "a", "s", "s", " ", "x">>]

ExponentParts ==
    [none   |-> <<>>,
     e24    |-> <<"2", "4">>,
     e2     |-> <<"2">>,
     padded |-> <<"2", " ">>,
     neg    |-> <<"-", "3">>,
     stars  |-> <<"*", "*">>]

KgParts ==
    [none  |-> <<>>,
     kg    |-> KgLiteral,
     loose |-> <<" ", "(", "k", "g", ")", " ", "=", " ">>,
     wide  |-> <<" ", "(", "k", "g", ")", " ", WideChar, " ">>]

MantissaParts ==
    [none   |-> <<>>,
     earth  |-> <<"5", ".", "9", "7", "2", "1", "9", "+", "-", "0", ".", "0", "0", "0", " ", "6">>,
     exact  |-> <<"5", ".", "9", "7", "2", "1", "9">>,
     moon   |-> <<"7", ".", "3", "4", "9">>,
     padded |-> <<"7", ".", "3", "4", "9", " ", " ">>,
     na     |-> <<"n", ".", "a", ".">>,
     wide   |-> <<"5", ".", "9", "7", "2", "1">> \o <<WideChar>>]

\* The lines of a block: a margin, a label, an exponent, the unit and a
\* mantissa; a line that ends inside a part has nothing after it.
PropertyLines ==
    {l \in [margin : DOMAIN MarginParts, label : DOMAIN LabelParts,
            exp : DOMAIN ExponentParts, kg : DOMAIN KgParts,
            man : DOMAIN MantissaParts] :
        /\ l.margin \in {"short", "none"} => l.label = "none"
        /\ l.label # "mass" => l.exp = "none"
        /\ l.exp \in {"none", "e2"} => l.kg = "none"
        /\ l.kg = "none" => l.man = "none"}

PropertyText(l) ==
    MarginParts[l.margin] \o LabelParts[l.label] \o ExponentParts[l.exp]
    \o KgParts[l.kg] \o MantissaParts[l.man]

\* What the loop body does with every line of the pool, computed once.
MassTable == [l \in PropertyLines |-> MassOfLine(PropertyText(l))]

\* The number of lines of a block with more than one line.
MaxBlockLines == 3

PLine(margin, label, exp, kg, man) ==
    [margin |-> margin, label |-> label, exp |-> exp, kg |-> kg, man |-> man]

\* The lines the longer blocks are made of.
BlockLines ==
    {PLine("short", "none", "none", "none", "none"),
     PLine("m45", "density", "none", "none", "none"),
     PLine("m44", "mass", "e24", "kg", "earth"),
     PLine("m45", "mass", "e24", "kg", "earth"),
     PLine("m45", "mass", "neg", "kg", "moon"),
     PLine("m45", "mass", "e24", "loose", "earth"),
     PLine("m45", "mass", "e24", "wide", "earth"),
     PLine("m45", "mass", "none", "none", "none"),
     PLine("m45", "mass", "e24", "kg", "padded")}

Blocks ==
    {<<l>> : l \in PropertyLines}
    \cup UNION {[1..n -> BlockLines] : n \in 0..MaxBlockLines}

OkProperties(mass) == [tag |-> "Ok", properties |-> [mass |-> mass]]

ParseError == [tag |-> "Err", error |-> "ParseError"]

\* Properties::parse(data) is entered.
PropertiesInit ==
    /\ kind = (1 :> "properties")
    /\ \E lines \in Blocks : input = (1 :> lines)
    /\ pos = (1 :> 0)
    /\ state = (1 :> [tag |-> "Scanning"])
    /\ pc = (1 :> "running")
    /\ ret = (1 :> Pending)
    /\ out = (1 :> <<>>)
    /\ call = NoCall
    /\ result = NoCall

\* What one round of the loop does with the outcome r of its body: a panic
\* unwinds, a mass is returned, otherwise the loop goes on.
ScanOutcome(i, r) ==
    /\ pos' = [pos EXCEPT ![i] = @ + 1]
    /\ pc' = [pc EXCEPT ![i] = IF r.panic THEN "panicked"
                               ELSE IF r.found THEN "idle" ELSE @]
    /\ ret' = [ret EXCEPT ![i] = IF r.panic THEN @
                                 ELSE IF r.found THEN OkProperties(r.mass) ELSE @]

\* One round of `for input in data`.
PropertiesLine(i) ==
    /\ kind[i] = "properties"
    /\ pc[i] = "running"
    /\ pos[i] < Len(input[i])
    /\ ScanOutcome(i, MassTable[Line(i)])
    /\ UNCHANGED <<kind, input, state, out, call, result>>

\* The loop has run out of lines: Err(ParseError).
PropertiesExhausted(i) ==
    /\ kind[i] = "properties"
    /\ pc[i] = "running"
    /\ pos[i] = Len(input[i])
    /\ pc' = [pc EXCEPT ![i] = "idle"]
    /\ ret' = [ret EXCEPT ![i] = ParseError]
    /\ UNCHANGED <<kind, input, pos, state, out, call, result>>

PropertiesNext == \E i \in Single : PropertiesLine(i) \/ PropertiesExhausted(i)

PropertiesSpec == PropertiesInit /\ [][PropertiesNext]_vars

\* The columns of a line with the mass, counted in characters.
LabelEnd == MarginWidth + Len(MassLabel)
ExponentEnd == LabelEnd + ExponentWidth
KgEnd == ExponentEnd + Len(KgLiteral)
MantissaEnd == KgEnd + MantissaWidth

\* A line matches: the label right after the first 45 characters, an
\* exponent of 2 characters, the unit, and a mantissa of up to 7 characters,
\* both of them numbers.
LineMatches(l) ==
    LET t == PropertyText(l)
    IN  /\ ColumnsOf(t, MarginWidth, LabelEnd) = MassLabel
        /\ Len(ColumnsOf(t, LabelEnd, ExponentEnd)) = ExponentWidth
        /\ ParseDecimal(ColumnsOf(t, LabelEnd, ExponentEnd)).ok
        /\ ColumnsOf(t, ExponentEnd, KgEnd) = KgLiteral
        /\ ParseDecimal(ColumnsOf(t, KgEnd, MantissaEnd)).ok

\* The mass a matching line states.
MatchedMass(l) ==
    LET t == PropertyText(l)
    IN  Mass(ParseDecimal(ColumnsOf(t, KgEnd, MantissaEnd)).val,
             ParseDecimal(ColumnsOf(t, LabelEnd, ExponentEnd)).val)

\* The index of the first line that matches, 0 when none does.
FirstMatch(lines) ==
    LET js == {j \in 1..Len(lines) : LineMatches(lines[j])}
    IN  IF js = {} THEN 0 ELSE CHOOSE j \in js : \A m \in js : j <= m

\* C14: Properties::parse computes its result from the first line that
\* matches: it reads no line after it and returns the mass that line states;
\* lines that do not match (too short, the label elsewhere) give no result.
C14_FirstMatchWins ==
    \A i \in DOMAIN kind :
        kind[i] = "properties" =>
            IF FirstMatch(input[i]) > 0
            THEN /\ pc[i] # "panicked"
                 /\ pos[i] <= FirstMatch(input[i])
                 /\ pc[i] = "idle" =>
                        /\ pos[i] = FirstMatch(input[i])
                        /\ ret[i] = OkProperties(
                                        MatchedMass(input[i][FirstMatch(input[i])]))
            ELSE ret[i].tag # "Ok"

\* C15: Properties::parse returns the not-found failure exactly when no line
\* of the block matches, the empty block included, and no Properties value
\* then.
C15_NotFoundExactlyWhenNoMatch ==
    \A i \in DOMAIN kind :
        kind[i] = "properties" =>
            /\ FirstMatch(input[i]) = 0 =>
                   /\ pc[i] # "panicked"
                   /\ pc[i] = "idle" => ret[i] = ParseError
            /\ ret[i] = ParseError => FirstMatch(input[i]) = 0

\* C16: Properties::parse never aborts; when it has returned, the result is
\* a Properties value or the not-found failure.
C16_TwoOutcomes ==
    \A i \in DOMAIN kind :
        kind[i] = "properties" =>
            /\ pc[i] # "panicked"
            /\ pc[i] = "idle" => ret[i].tag \in {"Ok", "Err"}

-----------------------------------------------------------------------------
(* ephemeris.rs: parse_date_time called on its own                         *)

\* The digits of a year in four columns.
Dec4(n) == Rep("0", 4 - Len(Dec(n))) \o Dec(n)

\* What stands before `A.D. `.
JulianDayParts ==
    [vector   |-> <<"2", "4", "5", "9", "8", "0", "5", ".", "3", "7", "2", "1", "7", "5", "9", "2", "6", " ", "=", " ">>,
     elements |-> <<"2", "4", "5", "9", "7", "5", "0", ".", "2", "5", "0", "0", "0", "0", "0", "0", "0", " ", "=", " ">>,
     tight    |-> <<"0", ".", "5", "=">>]

\* What follows the seconds.
SuffixParts ==
    [none   |-> <<>>,
     tdb    |-> <<".", "0", "0", "0", "0", " ", "T", "D", "B", " ">>,
     utc    |-> <<".", "0", "0", "0", "0", " ", "U", "T", "C">>,
     digits |-> <<"7", "8", "9", "0">>,
     equals |-> <<".", "5", "0", "0", "0", " ", "=", " ", "1">>,
     wide   |-> <<WideChar, " ">>]

\* The calendar dates and the times of day of the lines.
CalendarDates ==
    {[year |-> y, month |-> m, day |-> d] :
        y \in {99, 2022, 2024}, m \in 1..12, d \in {1, 28}}
    \cup {[year |-> 2024, month |-> 2, day |-> 29],
          [year |-> 1999, month |-> 12, day |-> 31]}

TimesOfDay ==
    {[hour |-> 0, minute |-> 0, second |-> 0],
     [hour |-> 18, minute |-> 0, second |-> 0],
     [hour |-> 20, minute |-> 55, second |-> 56],
     [hour |-> 23, minute |-> 59, second |-> 59]}

\* The lines `<julian day> = A.D. YYYY-Mon-DD HH:MM:SS<suffix>`.
TimestampLines ==
    [jd : DOMAIN JulianDayParts, date : CalendarDates, time : TimesOfDay,
     suffix : DOMAIN SuffixParts]

TimestampText(l) ==
    JulianDayParts[l.jd] \o AdPrefix
    \o Dec4(l.date.year) \o <<"-">> \o MonthText[l.date.month] \o <<"-">>
    \o Dec2(l.date.day) \o <<" ">>
    \o Dec2(l.time.hour) \o <<":">> \o Dec2(l.time.minute) \o <<":">>
    \o Dec2(l.time.second)
    \o SuffixParts[l.suffix]

DateInit ==
    /\ NoParser
    /\ call \in {[fn |-> "parse_date_time", value |-> l] : l \in TimestampLines}
    /\ result = NoCall

ParseDateTimeCall ==
    /\ call.fn = "parse_date_time"
    /\ result = NoCall
    /\ result' = parse_date_time(TimestampText(call.value))
    /\ UNCHANGED <<parserVars, call>>

DateNext == ParseDateTimeCall

DateSpec == DateInit /\ [][DateNext]_vars

\* C17: for a line `<julian day> = A.D. YYYY-Mon-DD HH:MM:SS<suffix>`
\* parse_date_time gives the timestamp with exactly the calendar fields of
\* the line, with no correction; the Julian day and the suffix have no part
\* in it.
C17_TimestampFromFields ==
    (call.fn = "parse_date_time" /\ result # NoCall) =>
        result = [panic |-> FALSE,
                  time |-> [year |-> call.value.date.year,
                            month |-> call.value.date.month,
                            day |-> call.value.date.day,
                            hour |-> call.value.time.hour,
                            minute |-> call.value.time.minute,
                            second |-> call.value.time.second]]

\* The leap day of 2024, one second before midnight, has been decoded from a
\* line whose suffix holds a further `=`.
C17_Witness ==
    /\ call.fn = "parse_date_time"
    /\ call.value.suffix = "equals"
    /\ call.value.jd = "tight"
    /\ result = [panic |-> FALSE,
                 time |-> [year |-> 2024, month |-> 2, day |-> 29,
                           hour |-> 23, minute |-> 59, second |-> 59]]

-----------------------------------------------------------------------------
(* The record machines are pulled                                          *)

\* C19: both machines are lazy.  The pull that returns the k-th item has
\* read the input up to the last line of the k-th cycle and no further; no
\* line is read between two pulls; the items handed out so far stay as they
\* are, so whoever stops after k items has the first k of them all.
C19_LazyPulls ==
    /\ [](\A i \in DOMAIN kind :
            (kind[i] \in Kinds /\ pc[i] = "idle" /\ ret[i].tag = "Some") =>
                /\ out[i] # <<>>
                /\ ret[i].item = out[i][Len(out[i])]
                /\ pos[i] = SoeIndex(input[i]) + CycleLength(kind[i]) * Len(out[i]))
    /\ [][\A i \in DOMAIN kind :
            kind[i] \in Kinds =>
                /\ pc[i] = "idle" => pos'[i] = pos[i]
                /\ \/ out'[i] = out[i]
                   \/ /\ Len(out'[i]) = Len(out[i]) + 1
                      /\ SubSeq(out'[i], 1, Len(out[i])) = out[i]
                      /\ ret'[i] = Some(out'[i][Len(out'[i])])]_vars

\* The first pull on an orbital-elements input of two cycles has returned
\* the first item with the five lines of the second cycle still unread.
C19_Witness ==
    \E i \in DOMAIN kind :
        /\ kind[i] = "elements"
        /\ input[i] = <<"soe">> \o ElementsCycleA \o ElementsCycleB
        /\ pc[i] = "idle"
        /\ Len(out[i]) = 1
        /\ ret[i] = Some(out[i][1])
        /\ pos[i] = 6

-----------------------------------------------------------------------------
(* Two decoders, each with an input of its own                             *)

Pair == {1, 2}

\* What the line after a velocity line holds in the inputs of a pair.
AuxContents == {"aux", "eoe", "soe", "pos_wide"}

\* The inputs of the decoders of a pair: two cycles, a cycle and a line
\* after `$$EOE`, a line that aborts, an input cut off inside a cycle.
PairInputs(k) ==
    IF k = "vector"
    THEN {<<"soe", "dateA", "posA", "velA", x, "dateB", "posB", "velB", y>> :
              x \in AuxContents, y \in AuxContents}
         \cup {<<"soe", "dateA", "posA", "velA", x, "eoe", "aux">> : x \in AuxContents}
         \cup {<<"header", "soe", "dateA", "pos_lbl">>,
               <<"soe", "dateA", "posA", "velA">>}
    ELSE {<<"soe">> \o ElementsCycleA \o ElementsCycleB,
          <<"soe">> \o ElementsCycleA \o <<"eoe", "aA">>,
          <<"soe", "dateA", "ecA", "a_nan">>,
          <<"soe", "dateA", "ecA", "omA">>}

\* parse() called twice, each time on an input of its own.
PairInit ==
    /\ kind \in [Pair -> Kinds]
    /\ input \in [Pair -> PairInputs("vector") \cup PairInputs("elements")]
    /\ \A i \in Pair : input[i] \in PairInputs(kind[i])
    /\ pos = [i \in Pair |-> 0]
    /\ state = [i \in Pair |-> [tag |-> "WaitingForSoe"]]
    /\ pc = [i \in Pair |-> "idle"]
    /\ ret = [i \in Pair |-> NotCalled]
    /\ out = [i \in Pair |-> <<>>]
    /\ call = NoCall
    /\ result = NoCall

PairNext == \E i \in Pair : Step(i)

PairSpec == PairInit /\ [][PairNext]_vars

\* The positions of the lines after a velocity line: every fourth line
\* after `$$SOE`.
AuxPositions(lines) ==
    IF SoeIndex(lines) = 0 THEN {}
    ELSE {j \in 1..Len(lines) :
              j > SoeIndex(lines) /\ (j - SoeIndex(lines)) % 4 = 0}

DifferOnlyInAux(a, b) ==
    /\ Len(a) = Len(b)
    /\ \A j \in 1..Len(a) : a[j] # b[j] => j \in AuxPositions(a)

\* Everything of the instance i but its input.
Local(i) == <<pos[i], state[i], pc[i], ret[i], out[i]>>

\* C18: the vector parser takes exactly one line after a velocity line and
\* returns the item without looking at that line: two parsers whose inputs
\* differ only in these lines are, after the same number of lines, in the
\* same state with the same items handed out.
C18_AuxiliaryLineIgnored ==
    /\ [](\A i \in DOMAIN kind : \A j \in DOMAIN kind :
            (/\ kind[i] = "vector"
             /\ kind[j] = "vector"
             /\ DifferOnlyInAux(input[i], input[j])
             /\ pos[i] = pos[j])
            => /\ state[i] = state[j]
               /\ out[i] = out[j]
               /\ (pc[i] = "panicked") <=> (pc[j] = "panicked"))
    /\ [][\A i \in DOMAIN kind :
            (kind[i] = "vector" /\ state[i].tag = "Complete" /\ pos'[i] # pos[i])
            => /\ pos'[i] = pos[i] + 1
               /\ ret'[i] = Some(VectorItem(state[i]))
               /\ out'[i] = Append(out[i], VectorItem(state[i]))
               /\ state'[i] = [tag |-> "WaitingForDate"]]_vars

\* Two vector parsers have handed out the same two items, one with `$$EOE`
\* and `$$SOE` after its velocity lines, the other with the usual lines.
C18_Witness ==
    /\ DOMAIN kind = Pair
    /\ kind = [i \in Pair |-> "vector"]
    /\ input[1] = <<"soe", "dateA", "posA", "velA", "eoe",
                    "dateB", "posB", "velB", "soe">>
    /\ input[2] = <<"soe", "dateA", "posA", "velA", "aux",
                    "dateB", "posB", "velB", "aux">>
    /\ Len(out[1]) = 2
    /\ out[2] = out[1]
    /\ Collected(1)
    /\ Collected(2)

\* C20: two instances are pulled in any interleaving.  A step of one
\* changes nothing of the other; two instances of the same kind on equal
\* inputs are, after the same number of lines, in the same state with the
\* same items, however their steps were interleaved; and the items of an
\* instance are those of the cycles of its own input.
C20_InstancesIndependent ==
    /\ [](\A i \in DOMAIN kind : \A j \in DOMAIN kind :
            (kind[i] = kind[j] /\ input[i] = input[j] /\ pos[i] = pos[j])
            => /\ state[i] = state[j]
               /\ out[i] = out[j]
               /\ (pc[i] = "panicked") <=> (pc[j] = "panicked"))
    /\ [](\A i \in DOMAIN kind : \A k \in 1..Len(out[i]) :
            out[i][k] = IF kind[i] = "vector"
                        THEN VectorCycleItem(input[i], SoeIndex(input[i]) + 4 * k - 3)
                        ELSE ElementsCycleItem(input[i], SoeIndex(input[i]) + 5 * k - 4))
    /\ [][\A i \in DOMAIN kind : \A j \in DOMAIN kind :
            (i # j /\ Local(i)' # Local(i))
            => (Local(j)' = Local(j) /\ input' = input /\ kind' = kind)]_vars

\* A vector parser and an orbital-elements parser have both handed out their
\* first item and are both inside their second pull, three lines into the
\* second cycle.
C20_Witness ==
    /\ DOMAIN kind = Pair
    /\ kind[1] = "vector"
    /\ kind[2] = "elements"
    /\ Len(out[1]) = 1
    /\ Len(out[2]) = 1
    /\ pc[1] = "running"
    /\ pc[2] = "running"
    /\ pos[1] = 8
    /\ pos[2] = 9

-----------------------------------------------------------------------------
(* The edges of the state of EphemerisVectorParser                         *)

\* The edges of EphemerisVectorParserState, as pairs of tags.
VectorEdges ==
    {<<"WaitingForSoe", "WaitingForDate">>,
     <<"WaitingForDate", "Date">>,
     <<"WaitingForDate", "End">>,
     <<"Date", "Position">>,
     <<"Position", "Complete">>,
     <<"Complete", "WaitingForDate">>}

\* May the edge from tag a to tag b be taken on the line n?
EdgeTakes(a, b, n) ==
    CASE a = "WaitingForSoe" -> LineText[n] = SoeText
      [] a = "WaitingForDate" /\ b = "End" -> LineText[n] = EoeText
      [] a = "WaitingForDate" /\ b = "Date" ->
             LineText[n] # EoeText /\ IsDateLine(n)
      [] OTHER -> TRUE

\* C21: the state of EphemerisVectorParser changes only along the edges
\* WaitingForSoe -> WaitingForDate (on `$$SOE`), WaitingForDate -> Date (on
\* a timestamp line) or -> End (on `$$EOE`), Date -> Position,
\* Position -> Complete, Complete -> WaitingForDate, one edge at most for a
\* line read; nothing leads back to WaitingForSoe or out of End, and an item
\* is emitted on the edge Complete -> WaitingForDate and on no other.
C21_VectorStateEdges ==
    [][\A i \in DOMAIN kind :
        kind[i] = "vector" =>
            /\ state'[i] # state[i] =>
                   /\ pos'[i] = pos[i] + 1
                   /\ <<state[i].tag, state'[i].tag>> \in VectorEdges
                   /\ EdgeTakes(state[i].tag, state'[i].tag, input[i][pos[i] + 1])
            /\ out'[i] # out[i] <=>
                   (state[i].tag = "Complete" /\ state'[i].tag = "WaitingForDate")
            /\ out'[i] # out[i] => out'[i] = Append(out[i], VectorItem(state[i]))]_vars

\* A vector parser has gone round the cycle once and then, on `$$EOE`, to
\* End: every edge has been taken.
C21_Witness ==
    \E i \in DOMAIN kind :
        /\ kind[i] = "vector"
        /\ input[i] = <<"soe">> \o VectorCycleA \o <<"eoe">>
        /\ state[i].tag = "End"
        /\ Len(out[i]) = 1
        /\ Collected(i)

-----------------------------------------------------------------------------
(* Malformed lines inside the data region                                  *)

\* A row of three labelled columns, by its character columns: each label in
\* its 4 columns and a number in the 22 columns after it.
RowWellFormed(text, l1, l2, l3) ==
    /\ ColumnsOf(text, 0, 4) = l1
    /\ IsSignedInteger(Trim(ColumnsOf(text, 4, 4 + FieldWidth)))
    /\ ColumnsOf(text, 4 + FieldWidth, 8 + FieldWidth) = l2
    /\ IsSignedInteger(Trim(ColumnsOf(text, 8 + FieldWidth, 8 + 2 * FieldWidth)))
    /\ ColumnsOf(text, 8 + 2 * FieldWidth, 12 + 2 * FieldWidth) = l3
    /\ IsSignedInteger(Trim(ColumnsOf(text, 12 + 2 * FieldWidth, 12 + 3 * FieldWidth)))

\* The labels of the row the machine k expects in the state with this tag.
SlotLabels(k, tag) ==
    CASE tag = "Date" /\ k = "vector" -> <<LabelX, LabelY, LabelZ>>
      [] tag = "Position" -> <<LabelVX, LabelVY, LabelVZ>>
      [] tag = "Date" /\ k = "elements" -> <<LabelEC, LabelQR, LabelIN>>
      [] tag = "FirstRow" -> <<LabelOM, LabelW, LabelTp>>
      [] tag = "SecondRow" -> <<LabelN, LabelMA, LabelTA>>
      [] tag = "ThirdRow" -> <<LabelA, LabelAD, LabelPR>>

\* The line n is malformed for the machine k in the state with this tag: a
\* timestamp line that does not decode where one is expected, a row with a
\* wrong label or a field that is not a number where a row is expected.
MalformedInSlot(k, tag, n) ==
    CASE tag = "WaitingForDate" -> LineText[n] # EoeText /\ ~IsDateLine(n)
      [] tag \in {"Date", "Position", "FirstRow", "SecondRow", "ThirdRow"} ->
             ~RowWellFormed(LineText[n], SlotLabels(k, tag)[1],
                            SlotLabels(k, tag)[2], SlotLabels(k, tag)[3])
      [] OTHER -> FALSE

\* C22: a label mismatch, a field that is not a number or a timestamp line
\* that does not decode, inside the data region, aborts the whole sequence:
\* the pull that reads the line does not return, no item is emitted for the
\* cycle of the line, and none is emitted ever after.
C22_MalformedLineAborts ==
    /\ [][\A i \in DOMAIN kind :
            (/\ kind[i] \in Kinds
             /\ pc[i] = "running"
             /\ pos'[i] = pos[i] + 1
             /\ MalformedInSlot(kind[i], state[i].tag, input[i][pos[i] + 1]))
            => /\ pc'[i] = "panicked"
               /\ ret'[i] = Pending
               /\ out'[i] = out[i]]_vars
    /\ [][\A i \in DOMAIN kind :
            (kind[i] \in Kinds /\ pc[i] = "panicked") => Local(i)' = Local(i)]_vars
    /\ [](\A i \in DOMAIN kind :
            (kind[i] \in Kinds /\ pc[i] = "panicked") => ret[i] = Pending)

\* A vector parser has aborted on a timestamp line with the 30th of
\* February; a whole cycle after that line is left unread.
C22_Witness ==
    \E i \in DOMAIN kind :
        /\ kind[i] = "vector"
        /\ input[i] = <<"soe", "date_bad">> \o VectorCycleB
        /\ pc[i] = "panicked"
        /\ pos[i] = 2
        /\ out[i] = <<>>

-----------------------------------------------------------------------------
(* The items handed out before a malformed line                            *)

\* The number of complete cycles the region of a machine k starts with.
WholeCycles(k, region) ==
    IF k = "vector" THEN CompleteVectorCycles(region)
    ELSE CompleteElementsCycles(region)

\* The items of the first n cycles after the line s of an input.
ItemsOfCycles(k, lines, s, n) ==
    [c \in 1..n |->
        IF k = "vector"
        THEN VectorCycleItem(lines, s + 4 * (c - 1) + 1)
        ELSE ElementsCycleItem(lines, s + 5 * (c - 1) + 1)]

\* The input is `$$SOE`, what stands before it, and whole cycles.
EndsAfterWholeCycle(k, lines) ==
    /\ SoeIndex(lines) > 0
    /\ Len(lines) = SoeIndex(lines) + CycleLength(k)
           * WholeCycles(k, SubSeq(lines, SoeIndex(lines) + 1, Len(lines)))

\* The number of cycles that lie before the line at index p.
CyclesBefore(k, lines, p) == (p - 1 - SoeIndex(lines)) \div CycleLength(k)

\* C23: the items pulled before the pull that reads a malformed line stay
\* valid.  When the machine has aborted in cycle m, the m-1 cycles before
\* it are well-formed and the items handed out are exactly theirs, each
\* returned by its pull; they are left as they are; and they are the items
\* the machine gives for the input that ends before cycle m.
C23_ItemsBeforeAbortStay ==
    /\ [](\A i \in DOMAIN kind :
            (kind[i] \in Kinds /\ pc[i] = "panicked") =>
                /\ WholeCycles(kind[i], SubSeq(input[i], SoeIndex(input[i]) + 1,
                                               pos[i] - 1))
                       = CyclesBefore(kind[i], input[i], pos[i])
                /\ out[i] = ItemsOfCycles(kind[i], input[i], SoeIndex(input[i]),
                                          CyclesBefore(kind[i], input[i], pos[i])))
    /\ [](\A i \in DOMAIN kind :
            (kind[i] \in Kinds /\ Collected(i) /\ EndsAfterWholeCycle(kind[i], input[i])) =>
                out[i] = ItemsOfCycles(kind[i], input[i], SoeIndex(input[i]),
                                       CyclesBefore(kind[i], input[i], Len(input[i]) + 1)))
    /\ [][\A i \in DOMAIN kind :
            kind[i] \in Kinds =>
                /\ pc'[i] = "panicked" => out'[i] = out[i]
                /\ out'[i] # out[i] =>
                       /\ SubSeq(out'[i], 1, Len(out[i])) = out[i]
                       /\ ret'[i] = Some(out'[i][Len(out'[i])])]_vars

\* An orbital-elements parser has handed out the item of its first cycle
\* and has aborted on the first line of the second, a row where a timestamp
\* line is expected.
C23_Witness ==
    \E i \in DOMAIN kind :
        /\ kind[i] = "elements"
        /\ input[i] = <<"soe">> \o ElementsCycleA \o <<"a_nan">>
        /\ pc[i] = "panicked"
        /\ Len(out[i]) = 1
        /\ out[i][1].time = TimeA
        /\ out[i][1].siderral_orbit_period = 112

-----------------------------------------------------------------------------
(* client.rs: query_with_retries                                           *)

\* The end of the range of `for n in 1..10`.
RetryEnd == 10

\* The seconds of the sleep after an attempt that failed.
SleepSeconds == 1

\* What query() gives: Err(HorizonsQueryError), or Ok with the lines of a
\* response (none, a response cut off inside a cycle, a whole one).
QueryLines ==
    [empty   |-> <<>>,
     partial |-> <<"soe", "dateA", "posA">>,
     whole   |-> <<"soe">> \o VectorCycleA \o <<"eoe">>]

QueryOutcomes == {"err"} \cup DOMAIN QueryLines

\* What the service does, attempt after attempt: it fails a number of times,
\* then it answers, and answers or fails from then on.
ServiceRuns ==
    {[n \in 1..(RetryEnd - 1) |-> IF n < f THEN "err" ELSE IF n = f THEN a ELSE b] :
         f \in 1..RetryEnd, a \in DOMAIN QueryLines, b \in QueryOutcomes}

Lines(lines) == [tag |-> "Lines", lines |-> lines]

QueryEvent(n) == [ev |-> "query", n |-> n]

\* tokio::time::sleep(Duration::from_secs(1)) in the round n with a pause
\* that grows with n.
SleepEventGrowing(n) == [ev |-> "sleep", n |-> n, secs |-> n]

\* tokio::time::sleep(Duration::from_secs(1)) in the round n of the loop.
SleepEvent(n) == [ev |-> "sleep", n |-> n, secs |-> SleepSeconds]

\* ephemeris_vector() has called query_with_retries(): the loop is entered
\* with n = 1.
RetryInit ==
    /\ kind = (1 :> "retries")
    /\ \E run \in ServiceRuns : input = (1 :> run)
    /\ pos = (1 :> 0)
    /\ state = (1 :> [tag |-> "Attempt", n |-> 1])
    /\ pc = (1 :> "running")
    /\ ret = (1 :> Pending)
    /\ out = (1 :> <<>>)
    /\ call = NoCall
    /\ result = NoCall

\* `if let Ok(result) = query(parameters).await { return result; }`
Query(i) ==
    /\ kind[i] = "retries"
    /\ pc[i] = "running"
    /\ state[i].tag = "Attempt"
    /\ pos' = [pos EXCEPT ![i] = @ + 1]
    /\ out' = [out EXCEPT ![i] = Append(@, QueryEvent(state[i].n))]
    /\ IF Line(i) = "err"
       THEN /\ state' = [state EXCEPT ![i] = [tag |-> "Sleep", n |-> @.n]]
            /\ UNCHANGED <<pc, ret>>
       ELSE /\ state' = [state EXCEPT ![i] = [tag |-> "Returned"]]
            /\ pc' = [pc EXCEPT ![i] = "idle"]
            /\ ret' = [ret EXCEPT ![i] = Lines(QueryLines[Line(i)])]
    /\ UNCHANGED <<kind, input, call, result>>

\* The loop is left with the empty line list for the panic.
MaxRetriesReturningEmpty(i) ==
    /\ state' = [state EXCEPT ![i] = [tag |-> "Returned"]]
    /\ pc' = [pc EXCEPT ![i] = "idle"]
    /\ ret' = [ret EXCEPT ![i] = Lines(<<>>)]

\* The range is used up: panic!("max retries exceeded").
MaxRetriesExceeded(i) ==
    /\ state' = [state EXCEPT ![i] = [tag |-> "Exhausted"]]
    /\ pc' = [pc EXCEPT ![i] = "panicked"]
    /\ UNCHANGED ret

\* The sleep at the end of the loop body, and the step of the loop after it.
Sleep(i) ==
    /\ kind[i] = "retries"
    /\ pc[i] = "running"
    /\ state[i].tag = "Sleep"
    /\ out' = [out EXCEPT ![i] = Append(@, SleepEvent(state[i].n))]
    /\ IF state[i].n + 1 < RetryEnd
       THEN /\ state' = [state EXCEPT ![i] = [tag |-> "Attempt", n |-> @.n + 1]]
            /\ UNCHANGED <<pc, ret>>
       ELSE MaxRetriesExceeded(i)
    /\ UNCHANGED <<kind, input, pos, call, result>>

\* ephemeris_vector() hands the lines to EphemerisVectorParser::parse.
ParseResponse(i) ==
    /\ kind[i] = "retries"
    /\ pc[i] = "idle"
    /\ call = NoCall
    /\ call' = [fn |-> "EphemerisVectorParser::parse", value |-> ret[i].lines]
    /\ UNCHANGED <<parserVars, result>>

RetryNext == \E i \in Single : Query(i) \/ Sleep(i) \/ ParseResponse(i)

RetrySpec == RetryInit /\ [][RetryNext]_vars

\* The first attempt the service answers, 0 when it answers none.
FirstOk(run) ==
    LET js == {j \in 1..Len(run) : run[j] # "err"}
    IN  IF js = {} THEN 0 ELSE CHOOSE j \in js : \A m \in js : j <= m

\* C24: query_with_retries makes at most 9 attempts, one after another;
\* after every attempt that failed it waits 1 second, the same every time,
\* before the next step; it returns the lines of the first attempt that
\* succeeds, and makes no attempt and no wait after it.
C24_BoundedRetries ==
    /\ [](\A i \in DOMAIN kind :
            kind[i] = "retries" =>
                /\ pos[i] <= 9
                /\ \A k \in 1..Len(out[i]) :
                       IF k % 2 = 1
                       THEN out[i][k] = [ev |-> "query", n |-> (k + 1) \div 2]
                       ELSE /\ out[i][k] = [ev |-> "sleep", n |-> k \div 2, secs |-> 1]
                            /\ input[i][k \div 2] = "err"
                /\ pos[i] = (Len(out[i]) + 1) \div 2
                /\ pc[i] = "idle" =>
                       /\ FirstOk(input[i]) > 0
                       /\ pos[i] = FirstOk(input[i])
                       /\ Len(out[i]) = 2 * pos[i] - 1
                       /\ ret[i] = Lines(QueryLines[input[i][pos[i]]]))
    /\ [][\A i \in DOMAIN kind :
            kind[i] = "retries" =>
                /\ (pos'[i] # pos[i] /\ input[i][pos[i] + 1] = "err")
                       => (pc'[i] = "running" /\ state'[i].tag = "Sleep")
                /\ state[i].tag = "Sleep" =>
                       (out'[i] = out[i] \/ Len(out'[i]) = Len(out[i]) + 1)
                /\ pc[i] = "idle" => (pos'[i] = pos[i] /\ out'[i] = out[i]
                                      /\ ret'[i] = ret[i] /\ pc'[i] = "idle")]_vars

\* The ninth attempt has succeeded, after eight that failed and eight
\* sleeps, and its lines have been returned.
C24_Witness ==
    \E i \in DOMAIN kind :
        /\ kind[i] = "retries"
        /\ pc[i] = "idle"
        /\ pos[i] = 9
        /\ Len(out[i]) = 17
        /\ ret[i] = Lines(QueryLines.whole)

\* C25: when every attempt fails, query_with_retries ends in the fatal
\* error and never returns a line list: no decoder is run.  A decoder is run
\* only on the lines of an attempt that succeeded.
C25_ExhaustionIsFatal ==
    \A i \in DOMAIN kind :
        kind[i] = "retries" =>
            /\ FirstOk(input[i]) = 0 =>
                   /\ ret[i] = Pending
                   /\ pc[i] # "idle"
                   /\ call = NoCall
                   /\ pc[i] = "panicked" <=> Len(out[i]) = 2 * (RetryEnd - 1)
                   /\ pc[i] = "running" => ENABLED (Query(i) \/ Sleep(i))
            /\ pc[i] = "panicked" => FirstOk(input[i]) = 0
            /\ call # NoCall =>
                   /\ FirstOk(input[i]) > 0
                   /\ call.value = QueryLines[input[i][FirstOk(input[i])]]

\* Nine attempts have failed, nine sleeps have gone by, and the function
\* has ended in the fatal error without a result.
C25_Witness ==
    \E i \in DOMAIN kind :
        /\ kind[i] = "retries"
        /\ pc[i] = "panicked"
        /\ pos[i] = 9
        /\ Len(out[i]) = 18
        /\ ret[i] = Pending
        /\ call = NoCall

-----------------------------------------------------------------------------
(* `$$EOE` and the state End                                               *)

\* The instance i reads its next line in this step, and the line is n.
ReadsLine(i, n) == pos'[i] = pos[i] + 1 /\ input[i][pos[i] + 1] = n

\* C26: both machines take `$$EOE` for the end marker only where a timestamp
\* line is expected.  The vector parser takes a `$$EOE` that comes after a
\* velocity line for the line it does not look at: it emits the item and
\* goes to WaitingForDate, not to End, and the line after it is decoded as
\* a timestamp line.
C26_EoeOnlyInTimestampSlot ==
    [][\A i \in DOMAIN kind :
        kind[i] \in Kinds =>
            /\ (state'[i].tag = "End" /\ state[i].tag # "End") =>
                   (state[i].tag = "WaitingForDate" /\ ReadsLine(i, "eoe"))
            /\ (ReadsLine(i, "eoe") /\ state[i].tag = "WaitingForDate") =>
                   state'[i].tag = "End"
            /\ (kind[i] = "vector" /\ state[i].tag = "Complete" /\ ReadsLine(i, "eoe")) =>
                   /\ state'[i] = [tag |-> "WaitingForDate"]
                   /\ out'[i] = Append(out[i], VectorItem(state[i]))
                   /\ ret'[i] = Some(VectorItem(state[i]))
                   /\ pc'[i] = "idle"
            /\ \A n \in LineNames \ {"eoe"} :
                   (state[i].tag = "WaitingForDate" /\ ReadsLine(i, n)) =>
                       IF IsDateLine(n)
                       THEN state'[i] = [tag |-> "Date", time |-> DateTable[n].time]
                       ELSE pc'[i] = "panicked"]_vars

\* A vector parser has emitted its first item on a `$$EOE` line after the
\* velocity line and has decoded the line after it as the timestamp line of
\* the second cycle.
C26_Witness ==
    \E i \in DOMAIN kind :
        /\ kind[i] = "vector"
        /\ input[i] = <<"soe", "dateA", "posA", "velA", "eoe",
                        "dateB", "posB", "velB", "aux">>
        /\ pos[i] = 6
        /\ state[i] = [tag |-> "Date", time |-> TimeB]
        /\ Len(out[i]) = 1


\* C27: in End a pull of either machine returns None, leaves the state End
\* and reads at most one further line: the step after the call reads the
\* next line, when there is one, and returns.  The pull that reads `$$EOE`
\* has not returned with it, so it is that pull that reads the one line
\* after `$$EOE` before it returns None.
C27_EndPullReadsOneLine ==
    [][\A i \in DOMAIN kind :
        kind[i] \in Kinds =>
            /\ state[i].tag = "End" =>
                   /\ state'[i] = state[i]
                   /\ out'[i] = out[i]
                   /\ pc[i] = "idle" => pos'[i] = pos[i]
                   /\ (pc[i] = "running" /\ Local(i)' # Local(i)) =>
                          /\ pc'[i] = "idle"
                          /\ ret'[i] = None
                          /\ pos'[i] = IF pos[i] < Len(input[i])
                                       THEN pos[i] + 1 ELSE pos[i]
            /\ (state[i].tag = "WaitingForDate" /\ ReadsLine(i, "eoe")) =>
                   (pc'[i] = "running" /\ state'[i] = [tag |-> "End"])]_vars

\* The first pull of a vector parser has read `$$SOE`, `$$EOE` and the
\* timestamp line after it, and has returned None; the rest of the cycle
\* after `$$EOE` is unread.
C27_Witness ==
    \E i \in DOMAIN kind :
        /\ kind[i] = "vector"
        /\ input[i] = <<"soe", "eoe">> \o VectorCycleA
        /\ pos[i] = 3
        /\ state[i].tag = "End"
        /\ Collected(i)
        /\ out[i] = <<>>

-----------------------------------------------------------------------------
(* The loop of next() runs                                                 *)

\* One round of the loop of next() of the instance i.
LoopStep(i) == Drained(i) \/ VectorNext(i) \/ ElementsNext(i)

\* A call of next() that has begun goes on running: the loop holds no await
\* and no lock.  Whether next() is called again is up to the caller.
FairSpec == Spec /\ WF_vars(\E i \in Single : LoopStep(i))

\* C28: on a finite input every pull comes to an end.  Every round of the
\* loop reads one line, or finds the input drained and returns None; the
\* lines read are never more than the input has, and every pull that hands
\* out an item has read a line, so that the first None comes with the pull
\* number (lines of the input + 1) at the latest.
C28_PullsTerminate ==
    /\ [](\A i \in DOMAIN kind :
            kind[i] \in Kinds =>
                /\ pos[i] <= Len(input[i])
                /\ Len(out[i]) <= pos[i])
    /\ [][\A i \in DOMAIN kind :
            kind[i] \in Kinds =>
                /\ (pc[i] = "running" /\ Local(i)' # Local(i)) =>
                       \/ pos'[i] = pos[i] + 1
                       \/ /\ pos[i] = Len(input[i])
                          /\ pos'[i] = pos[i]
                          /\ pc'[i] = "idle"
                          /\ ret'[i] = None
                /\ pc[i] # "running" => pos'[i] = pos[i]
                /\ out'[i] # out[i] =>
                       /\ pos'[i] = pos[i] + 1
                       /\ Len(out'[i]) = Len(out[i]) + 1]_vars
    /\ \A i \in Single : (pc[i] = "running") ~> (pc[i] # "running")

\* One pull has read twelve lines, none of them `$$SOE`, and has returned
\* None at the end of the input.
C28_Witness ==
    \E i \in DOMAIN kind :
        /\ kind[i] = "vector"
        /\ input[i] = VectorCycleA \o VectorCycleB \o VectorCycleA
        /\ pos[i] = 12
        /\ state[i].tag = "WaitingForSoe"
        /\ Collected(i)


\* The lines the instance i has read after the first `$$SOE` line.
LinesAfterSoe(i) ==
    IF SoeIndex(input[i]) = 0 \/ pos[i] < SoeIndex(input[i]) THEN 0
    ELSE pos[i] - SoeIndex(input[i])

\* C29: at every point of a run the items a machine has emitted are at most
\* the lines it has read after `$$SOE` divided by the size of a cycle,
\* rounded down: 4 lines for an item of EphemerisVectorParser, 5 lines for
\* an item of EphemerisOrbitalElementsParser.
C29_ItemsBoundedByLines ==
    \A i \in DOMAIN kind :
        /\ kind[i] = "vector" => Len(out[i]) <= LinesAfterSoe(i) \div 4
        /\ kind[i] = "elements" => Len(out[i]) <= LinesAfterSoe(i) \div 5

\* A vector parser has emitted two items with the eighth line after `$$SOE`.
C29_Witness ==
    \E i \in DOMAIN kind :
        /\ kind[i] = "vector"
        /\ LinesAfterSoe(i) = 8
        /\ Len(out[i]) = 2
        /\ ret[i] = Some(out[i][2])

-----------------------------------------------------------------------------
(* properties.rs: a line with the label and the exponent, without the unit *)

\* The line has 45 characters of one byte each, `Mass x10^` after them and
\* then an exponent of 2 characters that is a number, but not ` (kg)= `
\* after the exponent.
KgMissing(l) ==
    LET t == PropertyText(l)
    IN  /\ ByteLen(ColumnsOf(t, 0, ExponentEnd)) = ExponentEnd
        /\ ColumnsOf(t, MarginWidth, LabelEnd) = MassLabel
        /\ Len(ColumnsOf(t, LabelEnd, ExponentEnd)) = ExponentWidth
        /\ ParseDecimal(ColumnsOf(t, LabelEnd, ExponentEnd)).ok
        /\ ColumnsOf(t, ExponentEnd, KgEnd) # KgLiteral

-----------------------------------------------------------------------------
(* major_bodies.rs: what of a line try_from looks at                       *)

\* The lines of the pool with the same columns [0,44) as the line l.
SameColumns(l) ==
    {k \in BodyLines :
        ColumnsOf(BodyText(k), 0, IdWidth + NameWidth)
            = ColumnsOf(BodyText(l), 0, IdWidth + NameWidth)}

\* C31: the outcome of try_from depends on the first 44 characters of the
\* line alone: every line with the same columns [0,44) as the line of the
\* call has the outcome of the call (the same body, the same failure, or an
\* abort as well), whatever follows; and a decoded name has at most 35
\* characters, none of them a space at its start or its end.
C31_FirstColumnsDecide ==
    TryFromCalled =>
        /\ \A k \in SameColumns(call.value) : result = try_from(BodyText(k))
        /\ (IF result.panic THEN FALSE ELSE result.ok) =>
               /\ Len(result.body.name) <= 35
               /\ result.body.name = Trim(result.body.name)

\* try_from has decoded a line with a name of 36 characters to the body
\* with the first 35 of them; the pool holds another line with the same
\* columns [0,44) and other text after them.
C31_Witness ==
    /\ TryFromCalled
    /\ call.value = [id |-> "change", name |-> "full", tail |-> "none"]
    /\ result = [panic |-> FALSE, ok |-> TRUE,
                 body |-> [id |-> 0 - 78000, name |-> Rep("N", 35)]]
    /\ \E k \in SameColumns(call.value) : BodyText(k) # BodyText(call.value)


\* try_from was called on a line whose columns [9,44) hold spaces only.
BlankNameColumns ==
    \A j \in 1..Len(ColumnsOf(BodyText(call.value), IdWidth,
                              IdWidth + NameWidth)) :
        ColumnsOf(BodyText(call.value), IdWidth, IdWidth + NameWidth)[j] = " "

\* C32: on a line of fewer than 9 characters the whole line is the id
\* field and the name is empty: when the trimmed line is an integer the
\* outcome is the body with that id and the empty name, otherwise it is the
\* failure InvalidId; a line of 9 characters or more whose columns [0,9)
\* are an integer and whose columns [9,44) hold spaces only decodes to a
\* body with the empty name as well.
C32_ShortLineIsTheId ==
    TryFromCalled =>
        /\ Len(BodyText(call.value)) < IdWidth =>
               IF IsSignedInteger(Trim(BodyText(call.value)))
               THEN result = [panic |-> FALSE, ok |-> TRUE,
                              body |-> [id |-> IntegerOf(Trim(BodyText(call.value))),
                                        name |-> <<>>]]
               ELSE result = InvalidId
        /\ ( /\ Len(BodyText(call.value)) >= IdWidth
             /\ IsSignedInteger(CalledIdColumn)
             /\ BlankNameColumns ) =>
               result = [panic |-> FALSE, ok |-> TRUE,
                         body |-> [id |-> IntegerOf(CalledIdColumn),
                                   name |-> <<>>]]


-----------------------------------------------------------------------------
(* si/ephemeris.rs: the vector parser with SI quantities                   *)

\* Kilometers that takes the number for metres.
Meters(v) == [unit |-> "meter", value |-> v]

\* Length::new::<length::kilometer>(v)
Kilometers(v) == [unit |-> "kilometer", value |-> v]

\* Velocity::new::<velocity::kilometer_per_second>(v)
KilometersPerSecond(v) == [unit |-> "kilometer_per_second", value |-> v]

SiPositionState(vals) ==
    [tag |-> "Position",
     position |-> <<Kilometers(vals[1]), Kilometers(vals[2]), Kilometers(vals[3])>>]

SiCompleteState(st, vals) ==
    [tag |-> "Complete", position |-> st.position,
     velocity |-> <<KilometersPerSecond(vals[1]), KilometersPerSecond(vals[2]),
                    KilometersPerSecond(vals[3])>>]

SiVectorItem(st) == [position |-> st.position, velocity |-> st.velocity]

SiWaitingForSoe(i) ==
    /\ Reads(i, "si_vector", "WaitingForSoe")
    /\ AwaitSoe(i)

\* The timestamp line is not decoded: every line but `$$EOE` goes on.
SiWaitingForDate(i) ==
    /\ Reads(i, "si_vector", "WaitingForDate")
    /\ Continue(i, IF LineText[Line(i)] = EoeText THEN [tag |-> "End"]
                   ELSE [tag |-> "WaitingForPosition"])

SiWaitingForPosition(i) ==
    /\ Reads(i, "si_vector", "WaitingForPosition")
    /\ DataArm(i, PosTable[Line(i)], SiPositionState(PosTable[Line(i)].vals))

SiPosition(i) ==
    /\ Reads(i, "si_vector", "Position")
    /\ DataArm(i, VelTable[Line(i)],
               SiCompleteState(state[i], VelTable[Line(i)].vals))

SiComplete(i) ==
    /\ Reads(i, "si_vector", "Complete")
    /\ ReturnSome(i, [tag |-> "WaitingForDate"], SiVectorItem(state[i]))

SiEnd(i) ==
    /\ Reads(i, "si_vector", "End")
    /\ ReturnNone(i, 1)

SiVectorNext(i) ==
    \/ SiWaitingForSoe(i)
    \/ SiWaitingForDate(i)
    \/ SiWaitingForPosition(i)
    \/ SiPosition(i)
    \/ SiComplete(i)
    \/ SiEnd(i)

-----------------------------------------------------------------------------
(* parsing.rs: EphemerisParser                                             *)

\* The width of a label, as parsing.rs cuts it off.
LabelWidth == 4

\* The width of a column, as parsing.rs cuts it off.
ColumnWidth == 22

\* `take_or_empty(line, 4)`, `assert_eq!` on the label and then
\* `take_or_empty(line, 22)`.
EpColumn(line, label) ==
    LET l == take_or_empty(line, LabelWidth)
    IN  IF l.panic THEN Panic
        ELSE IF l.fst # label THEN Panic
        ELSE take_or_empty(l.snd, ColumnWidth)

RECURSIVE EpColumns(_, _)
\* The columns of the position line, label after label.
EpColumns(line, labels) ==
    IF labels = <<>> THEN [panic |-> FALSE, cols |-> <<>>]
    ELSE LET c == EpColumn(line, Head(labels))
         IN  IF c.panic THEN Panic
             ELSE LET more == EpColumns(c.snd, Tail(labels))
                  IN  IF more.panic THEN Panic
                      ELSE [panic |-> FALSE, cols |-> <<c.fst>> \o more.cols]

\* The arm of Position up to its assignment of self.state.
EpRow(line) ==
    LET c == EpColumns(line, <<LabelX, LabelY, LabelZ>>)
    IN  IF c.panic THEN Panic ELSE RowValues(c.cols)

EpPosTable == [n \in LineNames |-> EpRow(LineText[n])]

EpWaitingForSoe(i) ==
    /\ Reads(i, "legacy", "WaitingForSoe")
    /\ Continue(i, IF LineText[Line(i)] = SoeText
                   THEN [tag |-> "Date"] ELSE state[i])

EpDate(i) ==
    /\ Reads(i, "legacy", "Date")
    /\ Continue(i, IF LineText[Line(i)] = EoeText THEN [tag |-> "End"]
                   ELSE [tag |-> "Position"])

EpPosition(i) ==
    /\ Reads(i, "legacy", "Position")
    /\ DataArm(i, EpPosTable[Line(i)],
               [tag |-> "Velocity", position |-> EpPosTable[Line(i)].vals])

\* EpVelocity that hands out the item with the velocity line.
EpVelocityEmitting(i) ==
    /\ Reads(i, "legacy", "Velocity")
    /\ ReturnSome(i, [tag |-> "Date"], [position |-> state[i].position])

\* The velocity line is read and not looked at.
EpVelocity(i) ==
    /\ Reads(i, "legacy", "Velocity")
    /\ Continue(i, [tag |-> "Other", position |-> state[i].position])

EpOther(i) ==
    /\ Reads(i, "legacy", "Other")
    /\ ReturnSome(i, [tag |-> "Date"], [position |-> state[i].position])

EpEnd(i) ==
    /\ Reads(i, "legacy", "End")
    /\ ReturnNone(i, 1)

EphemerisParserNext(i) ==
    \/ EpWaitingForSoe(i)
    \/ EpDate(i)
    \/ EpPosition(i)
    \/ EpVelocity(i)
    \/ EpOther(i)
    \/ EpEnd(i)

-----------------------------------------------------------------------------
(* EphemerisVectorParser next to another parser, both on the same lines    *)

\* What stands where a cycle is expected: whole cycles, a cycle whose
\* timestamp is no date, cycles with a line of the wrong kind in the
\* position or the velocity slot, `$$EOE` after a velocity line, a cycle cut
\* short, `$$EOE`, nothing.
TwinPieces ==
    {VectorCycleA, VectorCycleB, <<"eoe">>, <<>>,
     <<"date_bad", "posA", "velA", "aux">>,
     <<"header", "posB", "velB", "aux">>,
     <<"dateA", "posA", "aux", "aux">>,
     <<"dateA", "pos_lbl", "velA", "aux">>,
     <<"dateA", "pos_nan", "velA", "aux">>,
     <<"dateA", "posA", "velA", "eoe">>,
     <<"dateB", "posB", "velB">>}

\* What follows the cycles: nothing, or `$$EOE` and one more line.
TwinTails == {<<>>, <<"eoe", "aux">>}

TwinInputs ==
    {<<"soe">> \o a \o b \o t :
         a \in TwinPieces, b \in TwinPieces, t \in TwinTails}
    \cup {<<"header", "soe">> \o a : a \in TwinPieces}
    \cup {<<"header", "dateA", "posA">>}

\* The parsers that are put next to EphemerisVectorParser.
OtherKinds == {"si_vector", "legacy"}

\* parse() of EphemerisVectorParser and of another parser on the same lines.
TwinInit ==
    /\ \E k \in OtherKinds : kind = (1 :> "vector") @@ (2 :> k)
    /\ \E lines \in TwinInputs : input = [i \in Pair |-> lines]
    /\ pos = [i \in Pair |-> 0]
    /\ state = [i \in Pair |-> [tag |-> "WaitingForSoe"]]
    /\ pc = [i \in Pair |-> "idle"]
    /\ ret = [i \in Pair |-> NotCalled]
    /\ out = [i \in Pair |-> <<>>]
    /\ call = NoCall
    /\ result = NoCall

TwinStep(i) ==
    \/ Pull(i)
    \/ Drained(i)
    \/ VectorNext(i)
    \/ SiVectorNext(i)
    \/ EphemerisParserNext(i)

TwinNext == \E i \in Pair : TwinStep(i)

TwinSpec == TwinInit /\ [][TwinNext]_vars


\* C33: the SI-unit vector parser (instance 2) and the default-unit vector
\* parser (instance 1) agree on the same lines.  After the same number of
\* lines, when the default-unit parser has not aborted, the SI-unit parser
\* has not aborted either and has handed out as many items, item k with the
\* position numbers of the default-unit item k as kilometres and its
\* velocity numbers as kilometres per second; so it is when both have
\* returned None.  Where the SI-unit parser has gone past the line at which
\* the default-unit parser aborted, that line stood in the timestamp slot.
C33_SiAgreesWithDefault ==
    (DOMAIN kind = Pair /\ kind[2] = "si_vector") =>
        /\ (pc[1] # "panicked" /\ (pos[1] = pos[2] \/ (Collected(1) /\ Collected(2))))
           => /\ pc[2] # "panicked"
              /\ Len(out[2]) = Len(out[1])
              /\ \A k \in 1..Len(out[1]) : \A j \in 1..3 :
                     /\ out[2][k].position[j]
                            = [unit |-> "kilometer",
                               value |-> out[1][k].position[j]]
                     /\ out[2][k].velocity[j]
                            = [unit |-> "kilometer_per_second",
                               value |-> out[1][k].velocity[j]]
        /\ (pc[1] = "panicked" /\ pos[2] >= pos[1] /\ pc[2] # "panicked")
           => state[1].tag = "WaitingForDate"

\* Both parsers have returned None at `$$EOE` after two cycles, each with
\* two items handed out, those of the SI-unit parser in kilometres and
\* kilometres per second.
C33_Witness ==
    /\ DOMAIN kind = Pair
    /\ kind[2] = "si_vector"
    /\ input[1] = <<"soe">> \o VectorCycleA \o VectorCycleB \o <<"eoe", "aux">>
    /\ Collected(1)
    /\ Collected(2)
    /\ state[1].tag = "End"
    /\ state[2].tag = "End"
    /\ Len(out[1]) = 2
    /\ out[2][2].position[1] = [unit |-> "kilometer", value |-> 21]
    /\ out[2][1].velocity[3] = [unit |-> "kilometer_per_second", value |-> 16]
    /\ out[1][2].position = <<21, 22, 23>>


\* The lines the instance i has read after the first `$$SOE`.
LinesRead(i) == pos[i] - SoeIndex(input[i])

\* C34: EphemerisParser of parsing.rs (instance 2) and EphemerisVectorParser
\* (instance 1) agree on positions on the same lines.  After the same
\* number of lines, when EphemerisVectorParser has not aborted,
\* EphemerisParser has not aborted either and has handed out as many
\* items, item k with the position of item k; so it is when both have
\* returned None.  Either parser, while it has not aborted, has handed out
\* one item for every 4 lines read after `$$SOE`, and is in End only after
\* `$$EOE` in a timestamp slot, the first line of a group of 4.
C34_LegacyAgreesOnPositions ==
    (DOMAIN kind = Pair /\ kind[2] = "legacy") =>
        /\ (pc[1] # "panicked" /\ (pos[1] = pos[2] \/ (Collected(1) /\ Collected(2))))
           => /\ pc[2] # "panicked"
              /\ Len(out[2]) = Len(out[1])
              /\ \A k \in 1..Len(out[1]) : out[2][k].position = out[1][k].position
        /\ \A i \in Pair :
              (pc[i] # "panicked" /\ SoeIndex(input[i]) > 0 /\ LinesRead(i) >= 0)
              => IF state[i].tag = "End"
                 THEN \E e \in 1..pos[i] :
                          /\ input[i][e] = "eoe"
                          /\ (e - SoeIndex(input[i])) % 4 = 1
                          /\ Len(out[i]) = (e - SoeIndex(input[i])) \div 4
                 ELSE Len(out[i]) = LinesRead(i) \div 4

\* Both parsers have returned None at `$$EOE` after two cycles of 4 lines,
\* each with two items handed out, the positions the same.
C34_Witness ==
    /\ DOMAIN kind = Pair
    /\ kind[2] = "legacy"
    /\ input[1] = <<"soe">> \o VectorCycleA \o VectorCycleB \o <<"eoe", "aux">>
    /\ Collected(1)
    /\ Collected(2)
    /\ state[1].tag = "End"
    /\ state[2].tag = "End"
    /\ pos = [i \in Pair |-> 11]
    /\ Len(out[2]) = 2
    /\ out[2][1].position = <<11, 12, 0 - 13>>
    /\ out[1][2].position = <<21, 22, 23>>
    /\ out[2][2].position = <<21, 22, 23>>

====
